---- MODULE Spec2Model ----
(***************************************************************************)
(* curlgen (src/src/index.ts): conversion between cURL commands, fetch     *)
(* and axios snippets and Postman collections.                             *)
(*                                                                         *)
(* A JavaScript string is a sequence of one-character strings.  The pure   *)
(* functions of the program are operators; every specification draws the  *)
(* inputs of one group of functions from bounded sets and applies them.    *)
(* main() is a state machine of its own (SpecMain).                        *)
(***************************************************************************)
EXTENDS Integers, Sequences, FiniteSets, TLC

VARIABLES pc, input, result,
          argv, loopIndex, toFormat, fromFormat, filePath, jsonOutput, showAll, inputParts,
          detectedType, requests, printed, exitCode

\* the variables of main other than pc, input and result
mainVars == <<argv, loopIndex, toFormat, fromFormat, filePath, jsonOutput, showAll, inputParts,
              detectedType, requests, printed, exitCode>>

vars == <<pc, input, result, mainVars>>

\* main is not running: its variables as they are before it starts
MainIdle ==
  /\ argv = <<>>
  /\ loopIndex = 0
  /\ toFormat = <<>>
  /\ fromFormat = <<>>
  /\ filePath = <<>>
  /\ jsonOutput = FALSE
  /\ showAll = FALSE
  /\ inputParts = <<>>
  /\ detectedType = <<>>
  /\ requests = <<>>
  /\ printed = <<>>
  /\ exitCode = "none"

(***************************************************************************)
(* Bounds of the model.                                                    *)
(***************************************************************************)
MaxLen == 5
MaxTokens == 4
MaxUrlTail == 3
MaxParts == 3
MaxChildren == 2
MaxHeaders == 1
MaxArgs == 3

(***************************************************************************)
(* Strings.                                                                *)
(***************************************************************************)
\* all sequences over S of length at most n
SeqsUpTo(S, n) == UNION {[1..k -> S] : k \in 0..n}

\* String.prototype.startsWith
StartsWith(s, p) == Len(s) >= Len(p) /\ SubSeq(s, 1, Len(p)) = p

\* the text p stands in s at (1-based) position i
MatchAt(s, i, p) == i >= 1 /\ i + Len(p) - 1 <= Len(s) /\ SubSeq(s, i, i + Len(p) - 1) = p

\* String.prototype.includes
Includes(s, p) == \E i \in 1..(Len(s) + 1) : MatchAt(s, i, p)

\* String.prototype.indexOf for one character, 1-based, 0 when absent
IndexOf(s, c) ==
  IF \E i \in 1..Len(s) : s[i] = c
  THEN CHOOSE i \in 1..Len(s) : s[i] = c /\ \A j \in 1..(i - 1) : s[j] # c
  ELSE 0

\* what \s matches, among the characters of the model
IsSpace(c) == c \in {" ", "\n", "\t", "\r"}

RECURSIVE TrimStart(_)
TrimStart(s) == IF Len(s) > 0 /\ IsSpace(s[1]) THEN TrimStart(Tail(s)) ELSE s

RECURSIVE TrimEnd(_)
TrimEnd(s) == IF Len(s) > 0 /\ IsSpace(s[Len(s)]) THEN TrimEnd(SubSeq(s, 1, Len(s) - 1)) ELSE s

\* String.prototype.trim
Trim(s) == TrimEnd(TrimStart(s))

LowerLetters == <<"a","b","c","d","e","f","g","h","i","j","k","l","m",
                  "n","o","p","q","r","s","t","u","v","w","x","y","z">>
UpperLetters == <<"A","B","C","D","E","F","G","H","I","J","K","L","M",
                  "N","O","P","Q","R","S","T","U","V","W","X","Y","Z">>

\* String.prototype.toUpperCase / toLowerCase
ToUpperCase(s) ==
  [k \in 1..Len(s) |->
     IF \E n \in 1..26 : LowerLetters[n] = s[k]
     THEN UpperLetters[CHOOSE n \in 1..26 : LowerLetters[n] = s[k]]
     ELSE s[k]]

ToLowerCase(s) ==
  [k \in 1..Len(s) |->
     IF \E n \in 1..26 : UpperLetters[n] = s[k]
     THEN LowerLetters[CHOOSE n \in 1..26 : UpperLetters[n] = s[k]]
     ELSE s[k]]

RECURSIVE Concat(_)
Concat(ss) == IF ss = <<>> THEN <<>> ELSE Head(ss) \o Concat(Tail(ss))

\* Array.prototype.join
RECURSIVE Join(_, _)
Join(ss, sep) ==
  IF ss = <<>> THEN <<>>
  ELSE IF Len(ss) = 1 THEN ss[1]
  ELSE ss[1] \o sep \o Join(Tail(ss), sep)

(***************************************************************************)
(* tokenize                                                                *)
(***************************************************************************)
\* the locals of tokenize before the loop; i is the (1-based) loop index
TokInit ==
  [tokens |-> <<>>, current |-> <<>>, inSingle |-> FALSE, inDouble |-> FALSE,
   escaped |-> FALSE, i |-> 1]

\* the backslash test without its "&& !inSingle"
TokStepEscapeInSingle(st, ch) ==
  IF st.escaped THEN [st EXCEPT !.current = Append(@, ch), !.escaped = FALSE]
  ELSE IF ch = "\\" THEN [st EXCEPT !.escaped = TRUE]
  ELSE IF ch = "'" /\ ~st.inDouble THEN [st EXCEPT !.inSingle = ~@]
  ELSE IF ch = "\"" /\ ~st.inSingle THEN [st EXCEPT !.inDouble = ~@]
  ELSE IF ch = " " /\ ~st.inSingle /\ ~st.inDouble
       THEN IF Len(st.current) > 0
            THEN [st EXCEPT !.tokens = Append(@, st.current), !.current = <<>>]
            ELSE st
  ELSE [st EXCEPT !.current = Append(@, ch)]

\* the step without the test "current.length > 0" at a separator
TokStepPushingEmpty(st, ch) ==
  IF st.escaped THEN [st EXCEPT !.current = Append(@, ch), !.escaped = FALSE]
  ELSE IF ch = "\\" /\ ~st.inSingle THEN [st EXCEPT !.escaped = TRUE]
  ELSE IF ch = "'" /\ ~st.inDouble THEN [st EXCEPT !.inSingle = ~@]
  ELSE IF ch = "\"" /\ ~st.inSingle THEN [st EXCEPT !.inDouble = ~@]
  ELSE IF ch = " " /\ ~st.inSingle /\ ~st.inDouble
       THEN [st EXCEPT !.tokens = Append(@, st.current), !.current = <<>>]
  ELSE [st EXCEPT !.current = Append(@, ch)]

\* the body of the loop over the characters, for the character ch
TokStep(st, ch) ==
  IF st.escaped THEN [st EXCEPT !.current = Append(@, ch), !.escaped = FALSE]
  ELSE IF ch = "\\" /\ ~st.inSingle THEN [st EXCEPT !.escaped = TRUE]
  ELSE IF ch = "'" /\ ~st.inDouble THEN [st EXCEPT !.inSingle = ~@]
  ELSE IF ch = "\"" /\ ~st.inSingle THEN [st EXCEPT !.inDouble = ~@]
  ELSE IF ch = " " /\ ~st.inSingle /\ ~st.inDouble
       THEN IF Len(st.current) > 0
            THEN [st EXCEPT !.tokens = Append(@, st.current), !.current = <<>>]
            ELSE st
  ELSE [st EXCEPT !.current = Append(@, ch)]

RECURSIVE TokLoop(_, _)
TokLoop(st, s) ==
  IF st.i > Len(s) THEN st
  ELSE TokLoop([TokStep(st, s[st.i]) EXCEPT !.i = @ + 1], s)

tokenize(s) ==
  LET st == TokLoop(TokInit, s)
  IN  IF Len(st.current) > 0 THEN Append(st.tokens, st.current) ELSE st.tokens

(***************************************************************************)
(* SpecTokenize: tokenize on every string over TokAlphabet.                *)
(***************************************************************************)
TokAlphabet == {"a", " ", "'", "\"", "\\"}

InitTokenize ==
  /\ MainIdle
  /\ pc = "tokenize"
  /\ input \in SeqsUpTo(TokAlphabet, MaxLen)
  /\ result = <<>>

DoTokenize ==
  /\ pc = "tokenize"
  /\ result' = tokenize(input)
  /\ pc' = "tokenized"
  /\ UNCHANGED <<input, mainVars>>

SpecTokenize == InitTokenize /\ [][DoTokenize]_vars

(***************************************************************************)
(* C1.  The six rules of the tokenizer, stated on their own: one quoting   *)
(* mode (plain, single, double) and the pending escape give every          *)
(* character a role (appended, dropped, separator); the tokens are the     *)
(* non-empty runs of appended characters between separators.               *)
(***************************************************************************)
RuleAfter(s) ==
  LET f[k \in 0..Len(s)] ==
        IF k = 0 THEN [mode |-> "plain", esc |-> FALSE]
        ELSE LET p == f[k - 1]
                 c == s[k]
             IN  IF p.esc THEN [p EXCEPT !.esc = FALSE]
                 ELSE IF c = "\\" /\ p.mode # "single" THEN [p EXCEPT !.esc = TRUE]
                 ELSE IF c = "'" /\ p.mode # "double"
                      THEN [p EXCEPT !.mode = IF @ = "single" THEN "plain" ELSE "single"]
                 ELSE IF c = "\"" /\ p.mode # "single"
                      THEN [p EXCEPT !.mode = IF @ = "double" THEN "plain" ELSE "double"]
                 ELSE p
  IN  f

RuleRole(s) ==
  LET f == RuleAfter(s)
  IN  [k \in 1..Len(s) |->
         LET p == f[k - 1]
             c == s[k]
         IN  IF p.esc THEN "lit"
             ELSE IF c = "\\" /\ p.mode # "single" THEN "drop"
             ELSE IF c = "'" /\ p.mode # "double" THEN "drop"
             ELSE IF c = "\"" /\ p.mode # "single" THEN "drop"
             ELSE IF c = " " /\ p.mode = "plain" THEN "sep"
             ELSE "lit"]

RECURSIVE SortedSeq(_)
SortedSeq(S) ==
  IF S = {} THEN <<>>
  ELSE LET m == CHOOSE x \in S : \A y \in S : x <= y
       IN  <<m>> \o SortedSeq(S \ {m})

\* the appended characters of s strictly between positions a and b
RuleLits(s, a, b) ==
  LET role == RuleRole(s)
      idx  == SelectSeq([k \in 1..(b - a - 1) |-> a + k], LAMBDA k : role[k] = "lit")
  IN  [j \in 1..Len(idx) |-> s[idx[j]]]

RuleTokens(s) ==
  LET role == RuleRole(s)
      cuts == SortedSeq({0, Len(s) + 1} \cup {k \in 1..Len(s) : role[k] = "sep"})
      runs == [j \in 1..(Len(cuts) - 1) |-> RuleLits(s, cuts[j], cuts[j + 1])]
  IN  SelectSeq(runs, LAMBDA r : r # <<>>)

\* the position of the quote that is still open at the end of s, 0 if none
OpenQuoteAt(s) ==
  LET f == RuleAfter(s)
  IN  IF f[Len(s)].mode = "plain" THEN 0
      ELSE CHOOSE q \in 1..Len(s) :
             /\ f[q - 1].mode = "plain"
             /\ \A k \in q..Len(s) : f[k].mode # "plain"

\* C1: tokenize returns the token sequence the six priority-ordered rules
\* define; only a space outside quotes (and not escaped) splits; after a
\* quote that is never closed nothing splits any more and the rest of the
\* input ends the last token; an escaped quote in an unquoted token is kept.
TokenizeFollowsRules ==
  pc = "tokenized" =>
    /\ result = RuleTokens(input)
    /\ LET role == RuleRole(input)
       IN  Len(result) <= 1 + Cardinality({k \in 1..Len(input) : role[k] = "sep"})
    /\ LET q == OpenQuoteAt(input)
           rest == RuleLits(input, q, Len(input) + 1)
       IN  q > 0 =>
             /\ Len(result) <= Len(tokenize(SubSeq(input, 1, q - 1))) + 1
             /\ rest # <<>> =>
                  /\ result # <<>>
                  /\ Len(result[Len(result)]) >= Len(rest)
                  /\ SubSeq(result[Len(result)],
                            Len(result[Len(result)]) - Len(rest) + 1,
                            Len(result[Len(result)])) = rest
    /\ input = <<"a", "\\", "'", "a">> => result = << <<"a", "'", "a">> >>
    /\ input = <<"a", "\\", "\"", " ", "a">> => result = << <<"a", "\"">>, <<"a">> >>
    /\ input = <<"'", "a", " ", "a", "'">> => result = << <<"a", " ", "a">> >>
    /\ input = <<"a", " ", "\"", "a", " ">> => result = << <<"a">>, <<"a", " ">> >>

\* a backslash inside single quotes is kept and the quoted space does not split
TokenizeWitness ==
  /\ pc = "tokenized"
  /\ input = <<"'", "\\", " ", "a", "'">>
  /\ result = << <<"\\", " ", "a">> >>

(***************************************************************************)
(* The Canonical Request Record (interface ParsedRequest).                 *)
(* headers is the object's entries in insertion order, as <<key, value>>.  *)
(***************************************************************************)
\* the value of an optional string field that is not set
Undefined == <<"undefined">>

\* JavaScript truthiness of a string or undefined
Truthy(s) == s # Undefined /\ s # <<>>

NoAuth == [present |-> FALSE, user |-> <<>>, pass |-> <<>>]

NewRequest ==
  [method |-> <<"G", "E", "T">>, url |-> <<>>, headers |-> <<>>, body |-> Undefined,
   contentType |-> Undefined, auth |-> NoAuth, followRedirects |-> TRUE,
   insecure |-> FALSE]

\* headers[key], Undefined when there is no such key
HeaderGet(headers, key) ==
  IF \E k \in 1..Len(headers) : headers[k][1] = key
  THEN headers[CHOOSE k \in 1..Len(headers) : headers[k][1] = key][2]
  ELSE Undefined

\* headers[key] = value: an existing key keeps its place
HeaderSet(headers, key, value) ==
  IF \E k \in 1..Len(headers) : headers[k][1] = key
  THEN [k \in 1..Len(headers) |->
          IF headers[k][1] = key THEN <<key, value>> ELSE headers[k]]
  ELSE Append(headers, <<key, value>>)

\* String.prototype.split on one character
RECURSIVE Split(_, _)
Split(s, c) ==
  LET i == IndexOf(s, c)
  IN  IF i = 0 THEN <<s>>
      ELSE <<SubSeq(s, 1, i - 1)>> \o Split(SubSeq(s, i + 1, Len(s)), c)

(***************************************************************************)
(* parseCurl                                                               *)
(***************************************************************************)
RequestFlags    == {<<"-", "X">>, <<"-", "-", "r", "e", "q", "u", "e", "s", "t">>}
HeaderFlags     == {<<"-", "H">>, <<"-", "-", "h", "e", "a", "d", "e", "r">>}
DataFlags       == {<<"-", "d">>, <<"-", "-", "d", "a", "t", "a">>, <<"-", "-", "d", "a", "t", "a", "-", "r", "a", "w">>, <<"-", "-", "d", "a", "t", "a", "-", "b", "i", "n", "a", "r", "y">>}
UrlencodeFlags  == {<<"-", "-", "d", "a", "t", "a", "-", "u", "r", "l", "e", "n", "c", "o", "d", "e">>}
UserFlags       == {<<"-", "u">>, <<"-", "-", "u", "s", "e", "r">>}

\* input.replace(/\\\n\s*/g, ' ')
RECURSIVE SkipSpaces(_, _)
SkipSpaces(s, i) == IF i <= Len(s) /\ IsSpace(s[i]) THEN SkipSpaces(s, i + 1) ELSE i

RECURSIVE ReplaceFrom(_, _)
ReplaceFrom(st, s) ==
  IF st.i > Len(s) THEN st.out
  ELSE IF MatchAt(s, st.i, <<"\\", "\n">>)
       THEN ReplaceFrom([i |-> SkipSpaces(s, st.i + 2), out |-> Append(st.out, " ")], s)
       ELSE ReplaceFrom([i |-> st.i + 1, out |-> Append(st.out, s[st.i])], s)

ReplaceContinuations(s) == ReplaceFrom([i |-> 1, out |-> <<>>], s)

\* normalized.replace(/^curl\s+/, '')
StripCurl(s) ==
  IF StartsWith(s, <<"c", "u", "r", "l">>) /\ Len(s) >= 5 /\ IsSpace(s[5])
  THEN SubSeq(s, SkipSpaces(s, 5), Len(s))
  ELSE s

\* the tokens parseCurl walks
CurlTokens(s) == tokenize(StripCurl(Trim(ReplaceContinuations(s))))

\* the cases of the switch: st is [i, result, explicitMethod], next is
\* tokens[i + 1] (Undefined past the end); each returns st after the case
CaseRequest(st, next) ==
  IF Truthy(next)
  THEN [st EXCEPT !.result.method = ToUpperCase(next), !.explicitMethod = TRUE,
                  !.i = @ + 1]
  ELSE st

CaseHeader(st, next) ==
  IF Truthy(next)
  THEN LET colonIdx == IndexOf(next, ":")
           key == Trim(SubSeq(next, 1, colonIdx - 1))
           value == Trim(SubSeq(next, colonIdx + 1, Len(next)))
       IN  IF colonIdx > 1
           THEN [st EXCEPT !.result.headers = HeaderSet(@, key, value),
                           !.result.contentType =
                              IF ToLowerCase(key) = <<"c", "o", "n", "t", "e", "n", "t", "-", "t", "y", "p", "e">> THEN value ELSE @,
                           !.i = @ + 1]
           ELSE [st EXCEPT !.i = @ + 1]
  ELSE st

\* the data case without its "if (!explicitMethod)"
CaseDataAlwaysPost(st, next) ==
  IF Truthy(next)
  THEN [st EXCEPT !.result.body = next, !.result.method = <<"P", "O", "S", "T">>, !.i = @ + 1]
  ELSE st

CaseData(st, next) ==
  IF Truthy(next)
  THEN [st EXCEPT !.result.body = next,
                  !.result.method = IF ~st.explicitMethod THEN <<"P", "O", "S", "T">> ELSE @,
                  !.i = @ + 1]
  ELSE st

CaseDataUrlencode(st, next) ==
  IF Truthy(next)
  THEN LET noType == ~Truthy(st.result.contentType)
           formType == <<"a", "p", "p", "l", "i", "c", "a", "t", "i", "o", "n", "/", "x", "-", "w", "w", "w", "-", "f", "o", "r", "m", "-", "u", "r", "l", "e", "n", "c", "o", "d", "e", "d">>
       IN  [st EXCEPT !.result.body = IF Truthy(@) THEN @ \o <<"&">> \o next ELSE next,
                      !.result.method = IF ~st.explicitMethod THEN <<"P", "O", "S", "T">> ELSE @,
                      !.result.contentType = IF noType THEN formType ELSE @,
                      !.result.headers =
                         IF noType THEN HeaderSet(@, <<"C", "o", "n", "t", "e", "n", "t", "-", "T", "y", "p", "e">>, formType) ELSE @,
                      !.i = @ + 1]
  ELSE st

\* const [user, pass] = next.split(':'); auth = { user, pass: pass || '' }
CaseUser(st, next) ==
  IF Truthy(next)
  THEN LET parts == Split(next, ":")
           user == parts[1]
           pass == IF Len(parts) >= 2 THEN parts[2] ELSE Undefined
       IN  [st EXCEPT !.result.auth =
                         [present |-> TRUE, user |-> user,
                          pass |-> IF Truthy(pass) THEN pass ELSE <<>>],
                      !.i = @ + 1]
  ELSE st

CaseLocation(st) == [st EXCEPT !.result.followRedirects = TRUE]

CaseInsecure(st) == [st EXCEPT !.result.insecure = TRUE]

\* -A, -b and -e: one well-known header each
CaseFixedHeader(st, next, name) ==
  IF Truthy(next)
  THEN [st EXCEPT !.result.headers = HeaderSet(@, name, next), !.i = @ + 1]
  ELSE st

CaseCompressed(st) ==
  IF ~Truthy(HeaderGet(st.result.headers, <<"A", "c", "c", "e", "p", "t", "-", "E", "n", "c", "o", "d", "i", "n", "g">>))
  THEN [st EXCEPT !.result.headers =
                     HeaderSet(@, <<"A", "c", "c", "e", "p", "t", "-", "E", "n", "c", "o", "d", "i", "n", "g">>, <<"g", "z", "i", "p", ",", " ", "d", "e", "f", "l", "a", "t", "e", ",", " ", "b", "r">>)]
  ELSE st

\* the default case taking the first URL-shaped token only
CaseDefaultFirstWins(st, token) ==
  IF ~StartsWith(token, <<"-">>) /\ (StartsWith(token, <<"h", "t", "t", "p">>) \/ StartsWith(token, <<"/">>))
     /\ st.result.url = <<>>
  THEN [st EXCEPT !.result.url = token]
  ELSE st

CaseDefault(st, token) ==
  IF ~StartsWith(token, <<"-">>) /\ (StartsWith(token, <<"h", "t", "t", "p">>) \/ StartsWith(token, <<"/">>))
  THEN [st EXCEPT !.result.url = token]
  ELSE st

\* the body of the for loop, with its i++
ParseStep(st, tokens) ==
  LET token == tokens[st.i]
      next  == IF st.i + 1 <= Len(tokens) THEN tokens[st.i + 1] ELSE Undefined
      after ==
        IF token \in RequestFlags THEN CaseRequest(st, next)
        ELSE IF token \in HeaderFlags THEN CaseHeader(st, next)
        ELSE IF token \in DataFlags THEN CaseData(st, next)
        ELSE IF token \in UrlencodeFlags THEN CaseDataUrlencode(st, next)
        ELSE IF token \in UserFlags THEN CaseUser(st, next)
        ELSE IF token \in {<<"-", "L">>, <<"-", "-", "l", "o", "c", "a", "t", "i", "o", "n">>} THEN CaseLocation(st)
        ELSE IF token \in {<<"-", "k">>, <<"-", "-", "i", "n", "s", "e", "c", "u", "r", "e">>} THEN CaseInsecure(st)
        ELSE IF token \in {<<"-", "A">>, <<"-", "-", "u", "s", "e", "r", "-", "a", "g", "e", "n", "t">>} THEN CaseFixedHeader(st, next, <<"U", "s", "e", "r", "-", "A", "g", "e", "n", "t">>)
        ELSE IF token \in {<<"-", "b">>, <<"-", "-", "c", "o", "o", "k", "i", "e">>} THEN CaseFixedHeader(st, next, <<"C", "o", "o", "k", "i", "e">>)
        ELSE IF token \in {<<"-", "e">>, <<"-", "-", "r", "e", "f", "e", "r", "e", "r">>} THEN CaseFixedHeader(st, next, <<"R", "e", "f", "e", "r", "e", "r">>)
        ELSE IF token \in {<<"-", "-", "c", "o", "m", "p", "r", "e", "s", "s", "e", "d">>} THEN CaseCompressed(st)
        ELSE CaseDefault(st, token)
  IN  [after EXCEPT !.i = @ + 1]

RECURSIVE ParseLoop(_, _)
ParseLoop(st, tokens) ==
  IF st.i > Len(tokens) THEN st ELSE ParseLoop(ParseStep(st, tokens), tokens)

\* the loop of parseCurl over its tokens
ParseTokens(tokens) ==
  ParseLoop([i |-> 1, result |-> NewRequest, explicitMethod |-> FALSE], tokens).result

parseCurl(s) == ParseTokens(CurlTokens(s))

(***************************************************************************)
(* Specifications of parseCurl: a command line is "curl" and up to         *)
(* MaxTokens words of a pool, joined by spaces.                            *)
(***************************************************************************)
CurlCommand(words) == Join(<<<<"c", "u", "r", "l">>>> \o words, <<" ">>)

MethodPool ==
  {<<"-", "X">>, <<"-", "-", "r", "e", "q", "u", "e", "s", "t">>, <<"-", "d">>, <<"-", "-", "d", "a", "t", "a", "-", "b", "i", "n", "a", "r", "y">>, <<"-", "-", "d", "a", "t", "a", "-", "u", "r", "l", "e", "n", "c", "o", "d", "e">>, <<"p", "u", "t">>, <<"h", "t", "t", "p", ":", "/", "/", "x">>}

InitMethod ==
  /\ MainIdle
  /\ pc = "parseCurl"
  /\ \E words \in SeqsUpTo(MethodPool, MaxTokens) : input = CurlCommand(words)
  /\ result = NewRequest

DoParseCurl ==
  /\ pc = "parseCurl"
  /\ result' = parseCurl(input)
  /\ pc' = "parsed"
  /\ UNCHANGED <<input, mainVars>>

SpecMethod == InitMethod /\ [][DoParseCurl]_vars

AuthPool == {<<"-", "u">>, <<"-", "-", "u", "s", "e", "r">>, <<"a", ":", "b", ":", "c">>, <<"a">>, <<"a", ":">>, <<":", "b">>, <<"-", "k">>}

InitAuth ==
  /\ MainIdle
  /\ pc = "parseCurl"
  /\ \E words \in SeqsUpTo(AuthPool, MaxTokens) : input = CurlCommand(words)
  /\ result = NewRequest

SpecAuth == InitAuth /\ [][DoParseCurl]_vars

UrlPool == {<<"h", "t", "t", "p", ":", "/", "/", "x">>, <<"/", "p">>, <<"x">>, <<"-", "d">>, <<"-", "X">>, <<"-", "k">>, <<"-", "z">>}

InitUrl ==
  /\ MainIdle
  /\ pc = "parseCurl"
  /\ \E words \in SeqsUpTo(UrlPool, MaxTokens) : input = CurlCommand(words)
  /\ result = NewRequest

SpecUrl == InitUrl /\ [][DoParseCurl]_vars

(***************************************************************************)
(* C2, C3, C10: what the claims call a flag, its argument, a processed     *)
(* flag.                                                                   *)
(***************************************************************************)
ValuedFlags ==
  RequestFlags \cup HeaderFlags \cup DataFlags \cup UrlencodeFlags \cup UserFlags
    \cup {<<"-", "A">>, <<"-", "-", "u", "s", "e", "r", "-", "a", "g", "e", "n", "t">>} \cup {<<"-", "b">>, <<"-", "-", "c", "o", "o", "k", "i", "e">>} \cup {<<"-", "e">>, <<"-", "-", "r", "e", "f", "e", "r", "e", "r">>}

RecognizedFlags == ValuedFlags \cup {<<"-", "L">>, <<"-", "-", "l", "o", "c", "a", "t", "i", "o", "n">>} \cup {<<"-", "k">>, <<"-", "-", "i", "n", "s", "e", "c", "u", "r", "e">>} \cup {<<"-", "-", "c", "o", "m", "p", "r", "e", "s", "s", "e", "d">>}

\* ArgOfFlag(toks)[j]: token j is taken as the argument of the valued flag before it
ArgOfFlag(toks) ==
  LET c[j \in 1..Len(toks)] ==
        IF j = 1 THEN FALSE ELSE toks[j - 1] \in ValuedFlags /\ ~c[j - 1]
  IN  c

\* the positions of the arguments of the processed flags among F
ArgsOf(toks, F) ==
  {j \in 2..Len(toks) : ArgOfFlag(toks)[j] /\ toks[j - 1] \in F}

MaxOf(S) == CHOOSE x \in S : \A y \in S : y <= x

\* C2: the method is the uppercase of the argument of the last processed
\* method flag, whether data flags come before or after it; with no method
\* flag it is POST when a data flag with an argument was processed, and GET
\* otherwise.
MethodFollowsFlags ==
  pc = "parsed" =>
    LET toks == CurlTokens(input)
        methodArgs == ArgsOf(toks, RequestFlags)
        dataArgs == ArgsOf(toks, DataFlags \cup UrlencodeFlags)
    IN  result.method =
          IF methodArgs # {} THEN ToUpperCase(toks[MaxOf(methodArgs)])
          ELSE IF dataArgs # {} THEN <<"P", "O", "S", "T">>
          ELSE <<"G", "E", "T">>

\* a data flag after an explicit method leaves the method alone
MethodWitness ==
  /\ pc = "parsed"
  /\ CurlTokens(input) = <<<<"-", "X">>, <<"p", "u", "t">>, <<"-", "d">>, <<"h", "t", "t", "p", ":", "/", "/", "x">>>>
  /\ result.method = <<"P", "U", "T">>
  /\ result.body = <<"h", "t", "t", "p", ":", "/", "/", "x">>

\* C3: the argument of the basic-auth flag is split on its first colon:
\* user is the text before it, pass all the text after it (further colons
\* included); without a colon user is the whole argument and pass is empty.
AuthSplitsOnFirstColon ==
  pc = "parsed" =>
    LET toks == CurlTokens(input)
        userArgs == ArgsOf(toks, UserFlags)
    IN  userArgs # {} =>
          LET arg == toks[MaxOf(userArgs)]
              colon == IndexOf(arg, ":")
          IN  /\ result.auth.present
              /\ result.auth.user = IF colon = 0 THEN arg ELSE SubSeq(arg, 1, colon - 1)
              /\ result.auth.pass =
                   IF colon = 0 THEN <<>> ELSE SubSeq(arg, colon + 1, Len(arg))

\* C10: url is the last token that is no recognized flag, no argument of a
\* valued flag, does not start with a dash and starts with http or /; it is
\* empty when there is none.  A valued flag that is the last token leaves
\* the record as it was before that token.
UrlIsLastUrlShapedToken ==
  pc = "parsed" =>
    LET toks == CurlTokens(input)
        n == Len(toks)
        urls == {j \in 1..n :
                   /\ toks[j] \notin RecognizedFlags
                   /\ ~ArgOfFlag(toks)[j]
                   /\ ~StartsWith(toks[j], <<"-">>)
                   /\ (StartsWith(toks[j], <<"h", "t", "t", "p">>) \/ StartsWith(toks[j], <<"/">>))}
    IN  /\ result.url = IF urls # {} THEN toks[MaxOf(urls)] ELSE <<>>
        /\ (n >= 1 /\ toks[n] \in ValuedFlags /\ ~ArgOfFlag(toks)[n]) =>
             result = ParseTokens(SubSeq(toks, 1, n - 1))

\* a URL taken as a flag's argument is skipped, the later URL wins, and the
\* trailing valued flag is ignored
UrlWitness ==
  /\ pc = "parsed"
  /\ CurlTokens(input) = <<<<"h", "t", "t", "p", ":", "/", "/", "x">>, <<"/", "p">>, <<"-", "d">>>>
  /\ result.url = <<"/", "p">>
  /\ result.body = Undefined
  /\ result.method = <<"G", "E", "T">>

(***************************************************************************)
(* toCurl                                                                  *)
(***************************************************************************)
\* the header flags of toCurl, one per entry in record order
CurlHeaderParts(headers) ==
  [k \in 1..Len(headers) |-> <<"-", "H", " ", "'">> \o headers[k][1] \o <<":", " ">> \o headers[k][2] \o <<"'">>]

\* toCurl putting the URL in double quotes
toCurlDoubleQuoted(req) ==
  LET parts ==
        <<<<"c", "u", "r", "l">>>>
        \o (IF req.method # <<"G", "E", "T">> THEN <<<<"-", "X", " ">> \o req.method>> ELSE <<>>)
        \o <<<<"\"">> \o req.url \o <<"\"">>>>
        \o CurlHeaderParts(req.headers)
        \o (IF req.auth.present
            THEN <<<<"-", "u", " ", "'">> \o req.auth.user \o <<":">> \o req.auth.pass \o <<"'">>>>
            ELSE <<>>)
        \o (IF Truthy(req.body) THEN <<<<"-", "d", " ", "'">> \o req.body \o <<"'">>>> ELSE <<>>)
        \o (IF req.insecure THEN <<<<"-", "k">>>> ELSE <<>>)
  IN  Join(parts, <<" ", "\\", "\n", " ", " ">>)

toCurl(req) ==
  LET parts ==
        <<<<"c", "u", "r", "l">>>>
        \o (IF req.method # <<"G", "E", "T">> THEN <<<<"-", "X", " ">> \o req.method>> ELSE <<>>)
        \o <<<<"'">> \o req.url \o <<"'">>>>
        \o CurlHeaderParts(req.headers)
        \o (IF req.auth.present
            THEN <<<<"-", "u", " ", "'">> \o req.auth.user \o <<":">> \o req.auth.pass \o <<"'">>>>
            ELSE <<>>)
        \o (IF Truthy(req.body) THEN <<<<"-", "d", " ", "'">> \o req.body \o <<"'">>>> ELSE <<>>)
        \o (IF req.insecure THEN <<<<"-", "k">>>> ELSE <<>>)
  IN  Join(parts, <<" ", "\\", "\n", " ", " ">>)

(***************************************************************************)
(* SpecRoundTrip: toCurl, then parseCurl, on the records with method GET   *)
(* and no body, headers or auth; the url is a prefix and up to MaxUrlTail  *)
(* more characters.                                                        *)
(***************************************************************************)
InitRoundTrip ==
  /\ MainIdle
  /\ pc = "toCurl"
  /\ \E prefix \in {<<>>, <<"h", "t", "t", "p">>, <<"/">>, <<"-">>, <<"x">>},
        tail \in SeqsUpTo({"x", "'", " ", "\\", "\n"}, MaxUrlTail),
        insecure \in BOOLEAN :
       input = [NewRequest EXCEPT !.url = prefix \o tail, !.insecure = insecure]
  /\ result = <<>>

DoToCurl ==
  /\ pc = "toCurl"
  /\ result' = toCurl(input)
  /\ pc' = "generated"
  /\ UNCHANGED <<input, mainVars>>

DoParseBack ==
  /\ pc = "generated"
  /\ result' = parseCurl(result)
  /\ pc' = "roundtrip"
  /\ UNCHANGED <<input, mainVars>>

NextRoundTrip == DoToCurl \/ DoParseBack

SpecRoundTrip == InitRoundTrip /\ [][NextRoundTrip]_vars

\* C4 as stated: whatever the url of a GET record with no body, headers or
\* auth, parseCurl(toCurl(record)) has the same url and the same method.
RoundTripAnyUrl ==
  pc = "roundtrip" => result.url = input.url /\ result.method = input.method

\* C4 amended: the same, for a url that is empty or starts with http or /,
\* and holds no single quote and no backslash directly followed by a newline.
RoundTripShellSafeUrl ==
  (/\ pc = "roundtrip"
   /\ (input.url = <<>> \/ StartsWith(input.url, <<"h", "t", "t", "p">>) \/ StartsWith(input.url, <<"/">>))
   /\ ~Includes(input.url, <<"'">>)
   /\ ~Includes(input.url, <<"\\", "\n">>))
  => result.url = input.url /\ result.method = input.method

\* a url with a space and a backslash comes back as it was
RoundTripWitness ==
  /\ pc = "roundtrip"
  /\ input.url = <<"h", "t", "t", "p", " ", "x", "\\">>
  /\ result.url = input.url
  /\ result.method = <<"G", "E", "T">>

(***************************************************************************)
(* JSON.parse.  A JavaScript value read from JSON is a record of one       *)
(* shape: t is its type, s the text of a string, number or boolean, k the  *)
(* keys and a the values of an object (in document order), a the elements  *)
(* of an array.  \u escapes and exponents that overflow or underflow are   *)
(* outside the strings of the model.                                       *)
(***************************************************************************)
JValue(t, s, k, a) == [t |-> t, s |-> s, k |-> k, a |-> a]
JUndefined == JValue("undefined", <<>>, <<>>, <<>>)
JString(s) == JValue("string", s, <<>>, <<>>)
JArray(a)  == JValue("array", <<>>, <<>>, a)
JObject(k, a) == JValue("object", <<>>, k, a)

Digits == {"0", "1", "2", "3", "4", "5", "6", "7", "8", "9"}

\* s[i], and "" past either end
CharAt(s, i) == IF i >= 1 /\ i <= Len(s) THEN s[i] ELSE ""

JFail == [ok |-> FALSE, pos |-> 0, val |-> JUndefined]
JOk(p, v) == [ok |-> TRUE, pos |-> p, val |-> v]

\* the character an escape stands for
JUnescape(e) == IF e = "n" THEN "\n" ELSE IF e = "t" THEN "\t" ELSE IF e = "r" THEN "\r"
                ELSE IF e = "b" THEN "U+0008" ELSE IF e = "f" THEN "\f" ELSE e

\* the rest of a string literal, from position j, acc being what was read
RECURSIVE ScanString(_, _, _)
ScanString(s, j, acc) ==
  LET c == CharAt(s, j)
  IN  IF c = "" THEN JFail
      ELSE IF c = "\"" THEN JOk(j + 1, JString(acc))
      ELSE IF c = "\\"
           THEN IF CharAt(s, j + 1) \in {"\"", "\\", "/", "n", "t", "r", "b", "f"}
                THEN ScanString(s, j + 2, Append(acc, JUnescape(CharAt(s, j + 1))))
                ELSE JFail
      ELSE IF c \in {"\n", "\t", "\r"} THEN JFail
      ELSE ScanString(s, j + 1, Append(acc, c))

RECURSIVE SkipDigits(_, _)
SkipDigits(s, i) == IF CharAt(s, i) \in Digits THEN SkipDigits(s, i + 1) ELSE i

\* a number literal at position i; 0 stands for "no number here"
ScanNumber(s, i) ==
  LET a == IF CharAt(s, i) = "-" THEN i + 1 ELSE i
      b == IF CharAt(s, a) \notin Digits THEN 0
           ELSE IF CharAt(s, a) = "0" THEN a + 1 ELSE SkipDigits(s, a)
      c == IF b = 0 THEN 0
           ELSE IF CharAt(s, b) = "."
                THEN IF CharAt(s, b + 1) \in Digits THEN SkipDigits(s, b + 1) ELSE 0
                ELSE b
      d == IF c = 0 THEN 0
           ELSE IF CharAt(s, c) \in {"e", "E"}
                THEN LET x == IF CharAt(s, c + 1) \in {"+", "-"} THEN c + 2 ELSE c + 1
                     IN  IF CharAt(s, x) \in Digits THEN SkipDigits(s, x) ELSE 0
                ELSE c
  IN  IF d = 0 THEN JFail ELSE JOk(d, JValue("number", SubSeq(s, i, d - 1), <<>>, <<>>))

RECURSIVE ParseValue(_, _)
RECURSIVE ParseMembers(_, _, _, _)
RECURSIVE ParseElements(_, _, _)

\* the value that starts at position i
ParseValue(s, i) ==
  LET c == CharAt(s, i)
  IN  IF c = "{"
      THEN LET j == SkipSpaces(s, i + 1)
           IN  IF CharAt(s, j) = "}" THEN JOk(j + 1, JObject(<<>>, <<>>))
               ELSE ParseMembers(s, j, <<>>, <<>>)
      ELSE IF c = "["
      THEN LET j == SkipSpaces(s, i + 1)
           IN  IF CharAt(s, j) = "]" THEN JOk(j + 1, JArray(<<>>))
               ELSE ParseElements(s, j, <<>>)
      ELSE IF c = "\"" THEN ScanString(s, i + 1, <<>>)
      ELSE IF c = "-" \/ c \in Digits THEN ScanNumber(s, i)
      ELSE IF MatchAt(s, i, <<"t", "r", "u", "e">>) THEN JOk(i + 4, JValue("boolean", <<"t", "r", "u", "e">>, <<>>, <<>>))
      ELSE IF MatchAt(s, i, <<"f", "a", "l", "s", "e">>) THEN JOk(i + 5, JValue("boolean", <<"f", "a", "l", "s", "e">>, <<>>, <<>>))
      ELSE IF MatchAt(s, i, <<"n", "u", "l", "l">>) THEN JOk(i + 4, JValue("null", <<>>, <<>>, <<>>))
      ELSE JFail

\* the members of an object from position i, keys and vals being those read
ParseMembers(s, i, keys, vals) ==
  IF CharAt(s, i) # "\"" THEN JFail
  ELSE LET key == ScanString(s, i + 1, <<>>)
       IN  IF ~key.ok THEN JFail
           ELSE LET c == SkipSpaces(s, key.pos)
                IN  IF CharAt(s, c) # ":" THEN JFail
                    ELSE LET v == ParseValue(s, SkipSpaces(s, c + 1))
                         IN  IF ~v.ok THEN JFail
                             ELSE LET e == SkipSpaces(s, v.pos)
                                      ks == Append(keys, key.val.s)
                                      vs == Append(vals, v.val)
                                  IN  IF CharAt(s, e) = ","
                                      THEN ParseMembers(s, SkipSpaces(s, e + 1), ks, vs)
                                      ELSE IF CharAt(s, e) = "}"
                                      THEN JOk(e + 1, JObject(ks, vs))
                                      ELSE JFail

\* the elements of an array from position i, vals being those read
ParseElements(s, i, vals) ==
  LET v == ParseValue(s, i)
  IN  IF ~v.ok THEN JFail
      ELSE LET e == SkipSpaces(s, v.pos)
               vs == Append(vals, v.val)
           IN  IF CharAt(s, e) = "," THEN ParseElements(s, SkipSpaces(s, e + 1), vs)
               ELSE IF CharAt(s, e) = "]" THEN JOk(e + 1, JArray(vs))
               ELSE JFail

\* JSON.parse(s): ok is FALSE when it throws a SyntaxError
JSONparse(s) ==
  LET v == ParseValue(s, SkipSpaces(s, 1))
  IN  IF v.ok /\ SkipSpaces(s, v.pos) = Len(s) + 1 THEN v ELSE JFail

\* JavaScript truthiness of a value
JTruthy(v) ==
  IF v.t \in {"null", "undefined"} THEN FALSE
  ELSE IF v.t = "boolean" THEN v.s = <<"t", "r", "u", "e">>
  ELSE IF v.t = "string" THEN v.s # <<>>
  ELSE IF v.t = "number"
       THEN \E k \in 1..Len(v.s) :
              /\ v.s[k] \in Digits \ {"0"}
              /\ \A j \in 1..k : v.s[j] \notin {"e", "E"}
  ELSE TRUE

\* v.key of a value that is not null or undefined: the last member of that
\* name of an object, undefined for everything else the model reads
JGet(v, key) ==
  IF v.t = "object" /\ \E n \in 1..Len(v.k) : v.k[n] = key
  THEN v.a[CHOOSE n \in 1..Len(v.k) : v.k[n] = key /\ \A m \in (n + 1)..Len(v.k) : v.k[m] # key]
  ELSE JUndefined

(***************************************************************************)
(* detectType                                                              *)
(***************************************************************************)
\* the body of the try block after JSON.parse: "postman" when it returns,
\* "next" when it falls out of the if, "throw" on a SyntaxError or a
\* TypeError (parsed.info of null)
DetectParsed(parsed) ==
  IF ~parsed.ok THEN "throw"
  ELSE IF parsed.val.t = "null" THEN "throw"
  ELSE IF JTruthy(JGet(parsed.val, <<"i", "n", "f", "o">>)) /\ JTruthy(JGet(parsed.val, <<"i", "t", "e", "m">>))
       THEN "postman"
  ELSE "next"

DetectCollection(trimmed) == DetectParsed(JSONparse(trimmed))

\* detectType checking axios before fetch
detectTypeAxiosFirst(s) ==
  LET trimmed == Trim(s)
  IN  IF StartsWith(trimmed, <<"c", "u", "r", "l", " ">>) \/ StartsWith(trimmed, <<"c", "u", "r", "l", "\n">>) THEN "curl"
      ELSE IF DetectCollection(trimmed) = "postman" THEN "postman"
      ELSE IF Includes(trimmed, <<"a", "x", "i", "o", "s">>) THEN "axios"
      ELSE IF Includes(trimmed, <<"f", "e", "t", "c", "h", "(">>) \/ Includes(trimmed, <<"f", "e", "t", "c", "h", " ", "(">>) THEN "fetch"
      ELSE "unknown"

detectType(s) ==
  LET trimmed == Trim(s)
  IN  IF StartsWith(trimmed, <<"c", "u", "r", "l", " ">>) \/ StartsWith(trimmed, <<"c", "u", "r", "l", "\n">>) THEN "curl"
      ELSE IF DetectCollection(trimmed) = "postman" THEN "postman"
      ELSE IF Includes(trimmed, <<"f", "e", "t", "c", "h", "(">>) \/ Includes(trimmed, <<"f", "e", "t", "c", "h", " ", "(">>) THEN "fetch"
      ELSE IF Includes(trimmed, <<"a", "x", "i", "o", "s">>) THEN "axios"
      ELSE "unknown"

(***************************************************************************)
(* SpecDetect: detectType on the concatenations of up to MaxParts pieces   *)
(* of text.                                                                *)
(***************************************************************************)
DetectPool ==
  {<<"c", "u", "r", "l">>, <<" ">>, <<"\n">>, <<"f", "e", "t", "c", "h", "(">>, <<"f", "e", "t", "c", "h", " ", "(">>, <<"a", "x", "i", "o", "s">>, <<"x">>,
   <<"{", "\"", "i", "n", "f", "o", "\"", ":", "1", ",", "\"", "i", "t", "e", "m", "\"", ":", "[", "]", "}">>,
   <<"{", "\"", "i", "n", "f", "o", "\"", ":", "0", ",", "\"", "i", "t", "e", "m", "\"", ":", "[", "]", "}">>,
   <<"{", "\"", "i", "n", "f", "o", "\"", ":", "\"", "a", "x", "i", "o", "s", "\"", ",", "\"", "i", "t", "e", "m", "\"", ":", "\"", "f", "e", "t", "c", "h", "(", "\"", "}">>,
   <<"{", "\"", "i", "t", "e", "m", "\"", ":", "[", "1", "]", "}">>,
   <<"{", "\"", "i", "n", "f", "o", "\"", ":", "{", "}", ",", "\"", "i", "t", "e", "m", "\"", ":", "n", "u", "l", "l", "}">>,
   <<"n", "u", "l", "l">>}

InitDetect ==
  /\ MainIdle
  /\ pc = "detectType"
  /\ \E parts \in SeqsUpTo(DetectPool, MaxParts) : input = Concat(parts)
  /\ result = "unknown"

DoDetectType ==
  /\ pc = "detectType"
  /\ result' = detectType(input)
  /\ pc' = "detected"
  /\ UNCHANGED <<input, mainVars>>

SpecDetect == InitDetect /\ [][DoDetectType]_vars

(***************************************************************************)
(* C5                                                                      *)
(***************************************************************************)
StartsLikeCurl(s) == StartsWith(Trim(s), <<"c", "u", "r", "l", " ">>) \/ StartsWith(Trim(s), <<"c", "u", "r", "l", "\n">>)

HasFetchCall(s) == Includes(Trim(s), <<"f", "e", "t", "c", "h", "(">>) \/ Includes(Trim(s), <<"f", "e", "t", "c", "h", " ", "(">>)

HasAxios(s) == Includes(Trim(s), <<"a", "x", "i", "o", "s">>)

\* the whole text is a JSON object with members info and item
HasInfoAndItem(s) ==
  LET doc == JSONparse(Trim(s))
  IN  /\ doc.ok
      /\ doc.val.t = "object"
      /\ \E n \in 1..Len(doc.val.k) : doc.val.k[n] = <<"i", "n", "f", "o">>
      /\ \E n \in 1..Len(doc.val.k) : doc.val.k[n] = <<"i", "t", "e", "m">>

\* ... whose values of info and item are both truthy
HasTruthyInfoAndItem(s) ==
  LET doc == JSONparse(Trim(s))
  IN  /\ HasInfoAndItem(s)
      /\ JTruthy(JGet(doc.val, <<"i", "n", "f", "o">>))
      /\ JTruthy(JGet(doc.val, <<"i", "t", "e", "m">>))

RECURSIVE flattenItemsCollectingFolders(_)
RECURSIVE FlattenFromCollectingFolders(_, _, _)

\* flattenItems with "if (item.request)" in place of "else if (item.request)"
flattenItemsCollectingFolders(itemList) ==
  IF itemList.t = "array" THEN FlattenFromCollectingFolders(itemList.a, 1, <<>>)
  ELSE IF itemList.t = "string" THEN [ok |-> TRUE, items |-> <<>>]
  ELSE [ok |-> FALSE, items |-> <<>>]

FlattenFromCollectingFolders(list, n, items) ==
  IF n > Len(list) THEN [ok |-> TRUE, items |-> items]
  ELSE LET item == list[n]
           own == IF JTruthy(JGet(item, <<"r", "e", "q", "u", "e", "s", "t">>)) THEN <<item>> ELSE <<>>
       IN  IF item.t \in {"null", "undefined"} THEN [ok |-> FALSE, items |-> <<>>]
           ELSE IF JTruthy(JGet(item, <<"i", "t", "e", "m">>))
                THEN LET sub == flattenItemsCollectingFolders(JGet(item, <<"i", "t", "e", "m">>))
                     IN  IF ~sub.ok THEN [ok |-> FALSE, items |-> <<>>]
                         ELSE FlattenFromCollectingFolders(list, n + 1,
                                                           items \o sub.items \o own)
           ELSE FlattenFromCollectingFolders(list, n + 1, items \o own)

RECURSIVE flattenItems(_)
RECURSIVE FlattenFrom(_, _, _)

\* flattenItems(itemList), for a truthy itemList: the items it pushes, or a
\* TypeError (a list that is not iterable, or a null element)
flattenItems(itemList) ==
  IF itemList.t = "array" THEN FlattenFrom(itemList.a, 1, <<>>)
  ELSE IF itemList.t = "string" THEN [ok |-> TRUE, items |-> <<>>]
  ELSE [ok |-> FALSE, items |-> <<>>]

\* the for loop of flattenItems from element n on, items being those pushed
FlattenFrom(list, n, items) ==
  IF n > Len(list) THEN [ok |-> TRUE, items |-> items]
  ELSE LET item == list[n]
       IN  IF item.t \in {"null", "undefined"} THEN [ok |-> FALSE, items |-> <<>>]
           ELSE IF JTruthy(JGet(item, <<"i", "t", "e", "m">>))
                THEN LET sub == flattenItems(JGet(item, <<"i", "t", "e", "m">>))
                     IN  IF ~sub.ok THEN [ok |-> FALSE, items |-> <<>>]
                         ELSE FlattenFrom(list, n + 1, items \o sub.items)
           ELSE IF JTruthy(JGet(item, <<"r", "e", "q", "u", "e", "s", "t">>))
                THEN FlattenFrom(list, n + 1, Append(items, item))
           ELSE FlattenFrom(list, n + 1, items)

\* the strings of an array of strings
JStrings(v) == [n \in 1..Len(v.a) |-> v.a[n].s]

\* x || dflt for an optional string
OrElse(v, dflt) == IF JTruthy(v) THEN v.s ELSE dflt

PostmanUrl(req) ==
  LET url == JGet(req, <<"u", "r", "l">>)
  IN  IF url.t = "string" THEN url.s
      ELSE IF url.t \notin {"null", "undefined"} /\ JTruthy(JGet(url, <<"r", "a", "w">>))
           THEN JGet(url, <<"r", "a", "w">>).s
      ELSE IF JTruthy(url)
           THEN LET protocol == OrElse(JGet(url, <<"p", "r", "o", "t", "o", "c", "o", "l">>), <<"h", "t", "t", "p", "s">>)
                    hostList == JGet(url, <<"h", "o", "s", "t">>)
                    pathList == JGet(url, <<"p", "a", "t", "h">>)
                    hostJoined == IF hostList.t = "array" THEN Join(JStrings(hostList), <<".">>)
                                  ELSE <<>>
                    pathJoined == IF pathList.t = "array" THEN Join(JStrings(pathList), <<"/">>)
                                  ELSE <<>>
                    host == IF hostJoined # <<>> THEN hostJoined ELSE <<"l", "o", "c", "a", "l", "h", "o", "s", "t">>
                IN  protocol \o <<":", "/", "/">> \o host \o <<"/">> \o pathJoined
      ELSE <<>>

RECURSIVE PostmanHeadersFrom(_, _, _)
PostmanHeadersFrom(list, n, headers) ==
  IF n > Len(list) THEN headers
  ELSE PostmanHeadersFrom(list, n + 1,
         HeaderSet(headers, JGet(list[n], <<"k", "e", "y">>).s, JGet(list[n], <<"v", "a", "l", "u", "e">>).s))

PostmanHeaders(req) ==
  LET header == JGet(req, <<"h", "e", "a", "d", "e", "r">>)
  IN  IF JTruthy(header) /\ header.t = "array" THEN PostmanHeadersFrom(header.a, 1, <<>>)
      ELSE <<>>

PostmanBody(req) ==
  LET body == JGet(req, <<"b", "o", "d", "y">>)
      mode == JGet(body, <<"m", "o", "d", "e">>)
      raw == JGet(body, <<"r", "a", "w">>)
      urlencoded == JGet(body, <<"u", "r", "l", "e", "n", "c", "o", "d", "e", "d">>)
  IN  IF ~JTruthy(body) THEN Undefined
      ELSE IF mode.t = "string" /\ mode.s = <<"r", "a", "w">> /\ JTruthy(raw) THEN raw.s
      ELSE IF mode.t = "string" /\ mode.s = <<"u", "r", "l", "e", "n", "c", "o", "d", "e", "d">> /\ urlencoded.t = "array"
           THEN Join([n \in 1..Len(urlencoded.a) |->
                        JGet(urlencoded.a[n], <<"k", "e", "y">>).s \o <<"=">>
                          \o JGet(urlencoded.a[n], <<"v", "a", "l", "u", "e">>).s], <<"&">>)
      ELSE Undefined

\* Array.prototype.find by key
JFindKey(list, key) ==
  IF \E n \in 1..Len(list) : JGet(list[n], <<"k", "e", "y">>).s = key
  THEN list[CHOOSE n \in 1..Len(list) :
              /\ JGet(list[n], <<"k", "e", "y">>).s = key
              /\ \A m \in 1..(n - 1) : JGet(list[m], <<"k", "e", "y">>).s # key]
  ELSE JUndefined

PostmanAuth(req) ==
  LET auth == JGet(req, <<"a", "u", "t", "h">>)
      type == JGet(auth, <<"t", "y", "p", "e">>)
      basic == JGet(auth, <<"b", "a", "s", "i", "c">>)
  IN  IF JTruthy(auth) /\ type.t = "string" /\ type.s = <<"b", "a", "s", "i", "c">> /\ basic.t = "array"
      THEN LET userEntry == JFindKey(basic.a, <<"u", "s", "e", "r", "n", "a", "m", "e">>)
               passEntry == JFindKey(basic.a, <<"p", "a", "s", "s", "w", "o", "r", "d">>)
           IN  IF JTruthy(userEntry)
               THEN [present |-> TRUE, user |-> JGet(userEntry, <<"v", "a", "l", "u", "e">>).s,
                     pass |-> OrElse(JGet(passEntry, <<"v", "a", "l", "u", "e">>), <<>>)]
               ELSE NoAuth
      ELSE NoAuth

\* the record items.map builds of one collected item
PostmanRequest(item) ==
  LET req == JGet(item, <<"r", "e", "q", "u", "e", "s", "t">>)
  IN  [method |-> OrElse(JGet(req, <<"m", "e", "t", "h", "o", "d">>), <<"G", "E", "T">>),
       url |-> PostmanUrl(req),
       headers |-> PostmanHeaders(req),
       body |-> PostmanBody(req),
       contentType |-> Undefined,
       auth |-> PostmanAuth(req),
       followRedirects |-> TRUE,
       insecure |-> FALSE]

\* the loop over the flattened items; flat.ok is FALSE when flattenItems threw
RequestsOfItems(flat) ==
  IF ~flat.ok
  THEN [ok |-> FALSE, requests |-> <<>>]
  ELSE [ok |-> TRUE,
        requests |-> [n \in 1..Len(flat.items) |-> PostmanRequest(flat.items[n])]]

\* parsePostmanCollection after JSON.parse: collection.item || [] is flattened
RequestsOfCollection(collection) ==
  IF ~collection.ok \/ collection.val.t = "null"
  THEN [ok |-> FALSE, requests |-> <<>>]
  ELSE RequestsOfItems(IF JTruthy(JGet(collection.val, <<"i", "t", "e", "m">>))
                       THEN flattenItems(JGet(collection.val, <<"i", "t", "e", "m">>))
                       ELSE [ok |-> TRUE, items |-> <<>>])

\* parsePostmanCollection(json): ok is FALSE when it throws
parsePostmanCollection(json) == RequestsOfCollection(JSONparse(json))

(***************************************************************************)
(* The collections of the model, written as JSON text: a top-level list of *)
(* up to two nodes, each a leaf or a folder of up to MaxChildren leaves,   *)
(* and the collections whose first node is a folder holding a folder.      *)
(***************************************************************************)
RECURSIVE Stringify(_)
Stringify(v) ==
  IF v.t = "string" THEN <<"\"">> \o v.s \o <<"\"">>
  ELSE IF v.t = "array"
       THEN <<"[">> \o Join([n \in 1..Len(v.a) |-> Stringify(v.a[n])], <<",">>) \o <<"]">>
  ELSE IF v.t = "object"
       THEN <<"{">> \o Join([n \in 1..Len(v.k) |->
                            <<"\"">> \o v.k[n] \o <<"\"", ":">> \o Stringify(v.a[n])], <<",">>) \o <<"}">>
  ELSE IF v.t = "null" THEN <<"n", "u", "l", "l">>
  ELSE v.s

RequestOf(method, url) == JObject(<<<<"m", "e", "t", "h", "o", "d">>, <<"u", "r", "l">>>>, <<JString(method), JString(url)>>)

LeafOf(name, request) == JObject(<<<<"n", "a", "m", "e">>, <<"r", "e", "q", "u", "e", "s", "t">>>>, <<JString(name), request>>)

\* the leaves: two requests and a node with neither a list nor a request
LeafNodes ==
  {LeafOf(<<"o", "n", "e">>, RequestOf(<<"G", "E", "T">>, <<"/", "1">>)),
   LeafOf(<<"t", "w", "o">>, RequestOf(<<"P", "U", "T">>, <<"/", "2">>)),
   JObject(<<<<"n", "a", "m", "e">>>>, <<JString(<<"n", "o", "n", "e">>)>>)}

\* a folder; style chooses its name and whether it has a request of its own
FolderOf(style, children) ==
  IF style = "named A" THEN JObject(<<<<"n", "a", "m", "e">>, <<"i", "t", "e", "m">>>>, <<JString(<<"A">>), JArray(children)>>)
  ELSE IF style = "named B"
       THEN JObject(<<<<"i", "t", "e", "m">>, <<"n", "a", "m", "e">>>>, <<JArray(children), JString(<<"B">>)>>)
  ELSE JObject(<<<<"n", "a", "m", "e">>, <<"r", "e", "q", "u", "e", "s", "t">>, <<"i", "t", "e", "m">>>>,
               <<JString(<<"A">>), RequestOf(<<"G", "E", "T">>, <<"/", "0">>), JArray(children)>>)

FolderNodes(style) == {FolderOf(style, ch) : ch \in SeqsUpTo(LeafNodes, MaxChildren)}

CollectionOf(items) == JObject(<<<<"i", "n", "f", "o">>, <<"i", "t", "e", "m">>>>, <<JObject(<<>>, <<>>), JArray(items)>>)

Collections ==
  {JObject(<<<<"i", "n", "f", "o">>>>, <<JObject(<<>>, <<>>)>>)}
    \cup UNION {{CollectionOf(items) :
                   items \in SeqsUpTo(LeafNodes \cup FolderNodes(style), 2)}
                 \cup {CollectionOf(<<d>> \o items) :
                         d \in {FolderOf(style, <<f>> \o ch) :
                                 f \in FolderNodes(style), ch \in SeqsUpTo(LeafNodes, 1)},
                         items \in SeqsUpTo(LeafNodes, 1)} :
                style \in {"named A", "named B", "own request"}}

InitPostman ==
  /\ MainIdle
  /\ pc = "parsePostmanCollection"
  /\ \E c \in Collections : input = Stringify(c)
  /\ result = [ok |-> TRUE, requests |-> <<>>]

DoParsePostman ==
  /\ pc = "parsePostmanCollection"
  /\ result' = parsePostmanCollection(input)
  /\ pc' = "imported"
  /\ UNCHANGED <<input, mainVars>>

SpecPostman == InitPostman /\ [][DoParsePostman]_vars

(***************************************************************************)
(* C6: the leaves of a collection by their paths.  A path is the sequence  *)
(* of list positions from the top-level item list down to a node; document *)
(* order is the lexicographic order of paths.                              *)
(***************************************************************************)
HasItemList(node) == JGet(node, <<"i", "t", "e", "m">>).t = "array"

HasRequest(node) == JGet(node, <<"r", "e", "q", "u", "e", "s", "t">>).t = "object"

\* the paths of the request-carrying leaves below list: a node with a list
\* is only descended into, a node without one counts if it has a request
RECURSIVE LeafPaths(_, _)
LeafPaths(list, prefix) ==
  UNION {LET node == list[n]
             path == Append(prefix, n)
         IN  IF HasItemList(node) THEN LeafPaths(JGet(node, <<"i", "t", "e", "m">>).a, path)
             ELSE IF HasRequest(node) THEN {path}
             ELSE {} : n \in 1..Len(list)}

\* p comes before q in document order (neither is a prefix of the other)
PathBefore(p, q) ==
  \E n \in 1..Len(p) :
    /\ n <= Len(q)
    /\ p[n] < q[n]
    /\ \A m \in 1..(n - 1) : p[m] = q[m]

RECURSIVE InDocumentOrder(_)
InDocumentOrder(paths) ==
  IF paths = {} THEN <<>>
  ELSE LET first == CHOOSE p \in paths : \A q \in paths \ {p} : PathBefore(p, q)
       IN  <<first>> \o InDocumentOrder(paths \ {first})

RECURSIVE NodeAt(_, _)
NodeAt(list, path) ==
  IF Len(path) = 1 THEN list[path[1]]
  ELSE NodeAt(JGet(list[path[1]], <<"i", "t", "e", "m">>).a, Tail(path))

\* C6: parsePostmanCollection returns one record per leaf that carries a
\* request, in document order: folders are descended into and their own
\* request is ignored, nodes with neither a list nor a request are skipped,
\* and a collection without a top-level item list yields the empty
\* sequence; folder names and nesting depth play no part.
ImporterFlattensInDocumentOrder ==
  pc = "imported" =>
    LET top == JGet(JSONparse(input).val, <<"i", "t", "e", "m">>)
        leaves == IF top.t = "array" THEN InDocumentOrder(LeafPaths(top.a, <<>>)) ELSE <<>>
    IN  /\ result.ok
        /\ Len(result.requests) = Len(leaves)
        /\ \A n \in 1..Len(leaves) :
             LET request == JGet(NodeAt(top.a, leaves[n]), <<"r", "e", "q", "u", "e", "s", "t">>)
             IN  /\ result.requests[n].url = JGet(request, <<"u", "r", "l">>).s
                 /\ result.requests[n].method = JGet(request, <<"m", "e", "t", "h", "o", "d">>).s

\* two folders with a request of their own, a leaf in each and one more at
\* the top: three records, the folders' requests not among them
ImporterWitness ==
  /\ pc = "imported"
  /\ input = Stringify(CollectionOf(
               <<FolderOf("own request", <<LeafOf(<<"t", "w", "o">>, RequestOf(<<"P", "U", "T">>, <<"/", "2">>))>>),
                 FolderOf("own request", <<JObject(<<<<"n", "a", "m", "e">>>>, <<JString(<<"n", "o", "n", "e">>)>>),
                                           LeafOf(<<"o", "n", "e">>, RequestOf(<<"G", "E", "T">>, <<"/", "1">>))>>)>>))
  /\ Len(result.requests) = 2
  /\ result.requests[1].url = <<"/", "2">>
  /\ result.requests[2].url = <<"/", "1">>

(***************************************************************************)
(* parseFetchCode and parseAxiosCode: the method of the record they        *)
(* return.  The url, headers, auth and body they extract are not           *)
(* modelled.                                                               *)
(***************************************************************************)
\* the three quote characters of the patterns; "U+0060" is the backtick
QuoteChars == {"'", "\"", "U+0060"}

\* what \w matches
IsWordChar(c) ==
  \/ \E k \in 1..26 : c = LowerLetters[k] \/ c = UpperLetters[k]
  \/ c \in Digits
  \/ c = "_"

RECURSIVE SkipWord(_, _)
SkipWord(s, i) == IF i <= Len(s) /\ IsWordChar(s[i]) THEN SkipWord(s, i + 1) ELSE i

RECURSIVE SkipNonQuote(_, _)
SkipNonQuote(s, i) ==
  IF i <= Len(s) /\ s[i] \notin QuoteChars THEN SkipNonQuote(s, i + 1) ELSE i

\* the method pattern (method, \s*, a colon, \s*, a quote, (\w+), a quote)
\* tried at position i: its group, or Undefined
MethodMatchAt(s, i) ==
  IF ~MatchAt(s, i, <<"m", "e", "t", "h", "o", "d">>) THEN Undefined
  ELSE LET a == SkipSpaces(s, i + 6)
           b == SkipSpaces(s, a + 1)
           e == SkipWord(s, b + 1)
       IN  IF /\ CharAt(s, a) = ":"
              /\ CharAt(s, b) \in QuoteChars
              /\ e > b + 1
              /\ CharAt(s, e) \in QuoteChars
           THEN SubSeq(s, b + 1, e - 1)
           ELSE Undefined

\* code.match of the method pattern: the group of the first match
MethodMatch(s) ==
  IF \E i \in 1..Len(s) : MethodMatchAt(s, i) # Undefined
  THEN MethodMatchAt(s, CHOOSE i \in 1..Len(s) :
                          /\ MethodMatchAt(s, i) # Undefined
                          /\ \A j \in 1..(i - 1) : MethodMatchAt(s, j) = Undefined)
  ELSE Undefined

\* the call pattern (name, \s*, an opening parenthesis, \s*, a quote, one or
\* more characters that are no quote, a quote) matches somewhere in s
CallMatch(s, name) ==
  \E i \in 1..Len(s) :
    /\ MatchAt(s, i, name)
    /\ LET a == SkipSpaces(s, i + Len(name))
           b == SkipSpaces(s, a + 1)
           e == SkipNonQuote(s, b + 1)
       IN  /\ CharAt(s, a) = "("
           /\ CharAt(s, b) \in QuoteChars
           /\ e > b + 1
           /\ CharAt(s, e) \in QuoteChars

\* result.method of parseFetchCode(code)
parseFetchCodeMethod(code) ==
  LET methodMatch == MethodMatch(code)
  IN  IF methodMatch # Undefined THEN ToUpperCase(methodMatch) ELSE <<"G", "E", "T">>

\* result.method of parseAxiosCode(code)
parseAxiosCodeMethod(code) ==
  LET methodMatch == MethodMatch(code)
  IN  IF CallMatch(code, <<"a", "x", "i", "o", "s", ".", "g", "e", "t">>) THEN <<"G", "E", "T">>
      ELSE IF methodMatch # Undefined THEN ToUpperCase(methodMatch)
      ELSE IF CallMatch(code, <<"a", "x", "i", "o", "s", ".", "p", "o", "s", "t">>) THEN <<"P", "O", "S", "T">>
      ELSE <<"G", "E", "T">>

(***************************************************************************)
(* SpecParsers: the four parsers, each on inputs of its own format; result *)
(* is the list of records (of their methods, for the two extractors).      *)
(***************************************************************************)
InitParsers ==
  /\ MainIdle
  /\ \/ /\ pc = "parseCurl"
        /\ \E words \in SeqsUpTo(MethodPool, MaxParts) : input = CurlCommand(words)
     \/ /\ pc = "parseFetchCode"
        /\ \E parts \in SeqsUpTo(
             {<<"f", "e", "t", "c", "h", "(", "'", "/", "x", "'", ",", "{">>, <<"m", "e", "t", "h", "o", "d", ":">>, <<"m", "e", "t", "h", "o", "d", " ", ":">>, <<" ">>, <<"'", "p", "o", "s", "t", "'">>, <<"\"", "P", "u", "t", "\"">>, <<"'", "p", "o", "-", "s", "t", "'">>,
             <<"U+0060", "g", "e", "t", "U+0060">>, <<"x">>}, MaxParts) :
             input = Concat(parts)
     \/ /\ pc = "parseAxiosCode"
        /\ \E parts \in SeqsUpTo(
             {<<"a", "x", "i", "o", "s", ".", "g", "e", "t", "(", "'", "/", "x", "'", ")">>, <<"a", "x", "i", "o", "s", ".", "p", "o", "s", "t", "(", "'", "/", "x", "'", ")">>, <<"a", "x", "i", "o", "s", ".", "g", "e", "t", "(">>, <<"a", "x", "i", "o", "s", "(", "{">>, <<"m", "e", "t", "h", "o", "d", ":">>,
             <<"'", "p", "u", "t", "'">>, <<"'", "D", "e", "l", "'">>, <<" ">>, <<"x">>}, MaxParts) :
             input = Concat(parts)
     \/ /\ pc = "parsePostmanCollection"
        /\ \E items \in SeqsUpTo(
             {LeafOf(<<"o", "n", "e">>, RequestOf(<<"G", "E", "T">>, <<"/", "1">>)),
             LeafOf(<<"t", "w", "o">>, RequestOf(<<"p", "o", "s", "t">>, <<"/", "2">>)),
             LeafOf(<<"t", "h", "r", "e", "e">>, RequestOf(<<>>, <<"/", "3">>)),
             LeafOf(<<"f", "o", "u", "r">>, JObject(<<<<"u", "r", "l">>>>, <<JString(<<"/", "4">>)>>))}, MaxParts) :
             input = Stringify(CollectionOf(items))
  /\ result = <<>>

ParseCurlInput ==
  /\ pc = "parseCurl"
  /\ result' = <<parseCurl(input)>>
  /\ pc' = "records"
  /\ UNCHANGED <<input, mainVars>>

ParseFetchInput ==
  /\ pc = "parseFetchCode"
  /\ result' = <<[method |-> parseFetchCodeMethod(input)]>>
  /\ pc' = "records"
  /\ UNCHANGED <<input, mainVars>>

ParseAxiosInput ==
  /\ pc = "parseAxiosCode"
  /\ result' = <<[method |-> parseAxiosCodeMethod(input)]>>
  /\ pc' = "records"
  /\ UNCHANGED <<input, mainVars>>

ParsePostmanInput ==
  /\ pc = "parsePostmanCollection"
  /\ parsePostmanCollection(input).ok
  /\ result' = parsePostmanCollection(input).requests
  /\ pc' = "records"
  /\ UNCHANGED <<input, mainVars>>

NextParsers == ParseCurlInput \/ ParseFetchInput \/ ParseAxiosInput \/ ParsePostmanInput

SpecParsers == InitParsers /\ [][NextParsers]_vars

\* C7: every record a parser produces has a method that is non-empty and
\* uppercase.
MethodNonEmptyUppercase ==
  pc = "records" =>
    \A n \in 1..Len(result) :
      /\ result[n].method # <<>>
      /\ result[n].method = ToUpperCase(result[n].method)

(***************************************************************************)
(* toFetch and toAxios.  The string they return is kept as the sequence of *)
(* its pieces, each with the expression of the template it comes from      *)
(* ("template" for the fixed text); Text gives the string itself.          *)
(***************************************************************************)
Fixed(s) == [from |-> "template", s |-> s]

Embedded(from, s) == [from |-> from, s |-> s]

Text(pieces) == Concat([n \in 1..Len(pieces) |-> pieces[n].s])

\* lines.join('\n')
RECURSIVE JoinLines(_)
JoinLines(lines) ==
  IF lines = <<>> THEN <<>>
  ELSE IF Len(lines) = 1 THEN lines[1]
  ELSE lines[1] \o <<Fixed(<<"\n">>)>> \o JoinLines(Tail(lines))

\* value.replace(/'/g, "\\'")
RECURSIVE EscapeQuotes(_)
EscapeQuotes(s) ==
  IF s = <<>> THEN <<>>
  ELSE (IF Head(s) = "'" THEN <<"\\", "'">> ELSE <<Head(s)>>) \o EscapeQuotes(Tail(s))

\* JSON.parse(req.body) does not throw
IsJson(s) == JSONparse(s).ok

FetchHeaderLine(key, value, hasAuth) ==
  IF key = <<"A", "u", "t", "h", "o", "r", "i", "z", "a", "t", "i", "o", "n">> /\ hasAuth
  THEN <<Fixed(<<" ", " ", " ", " ", "'", "A", "u", "t", "h", "o", "r", "i", "z", "a", "t", "i", "o", "n", "'", ":", " ">>), Fixed(<<"U+0060">>), Fixed(<<"B", "a", "s", "i", "c", " ", "$", "{", "c", "r", "e", "d", "e", "n", "t", "i", "a", "l", "s", "}">>),
         Fixed(<<"U+0060">>), Fixed(<<",">>)>>
  ELSE <<Fixed(<<" ", " ", " ", " ", "'">>), Embedded("header name", key), Fixed(<<"'", ":", " ", "'">>),
         Embedded("header value", EscapeQuotes(value)), Fixed(<<"'", ",">>)>>

toFetch(req) ==
  LET hasOptions == \/ req.method # <<"G", "E", "T">>
                    \/ Len(req.headers) > 0
                    \/ Truthy(req.body)
                    \/ req.auth.present
      credentials ==
        IF req.auth.present
        THEN << <<Fixed(<<"c", "o", "n", "s", "t", " ", "c", "r", "e", "d", "e", "n", "t", "i", "a", "l", "s", " ", "=", " ", "b", "t", "o", "a", "(", "'">>), Embedded("auth user", req.auth.user),
                  Fixed(<<":">>), Embedded("auth pass", req.auth.pass), Fixed(<<"'", ")", ";">>)>>,
                <<>> >>
        ELSE <<>>
      headers == IF req.auth.present
                 THEN HeaderSet(req.headers, <<"A", "u", "t", "h", "o", "r", "i", "z", "a", "t", "i", "o", "n">>, <<"$", "{", "U+0060", "B", "a", "s", "i", "c", " ", "$", "{", "c", "r", "e", "d", "e", "n", "t", "i", "a", "l", "s", "}", "U+0060", "}">>)
                 ELSE req.headers
      headerLines ==
        IF Len(headers) > 0
        THEN << <<Fixed(<<" ", " ", "h", "e", "a", "d", "e", "r", "s", ":", " ", "{">>)>> >>
             \o [n \in 1..Len(headers) |->
                   FetchHeaderLine(headers[n][1], headers[n][2], req.auth.present)]
             \o << <<Fixed(<<" ", " ", "}", ",">>)>> >>
        ELSE <<>>
      bodyLines ==
        IF Truthy(req.body)
        THEN IF IsJson(req.body)
             THEN << <<Fixed(<<" ", " ", "b", "o", "d", "y", ":", " ", "J", "S", "O", "N", ".", "s", "t", "r", "i", "n", "g", "i", "f", "y", "(">>), Embedded("json body", req.body),
                       Fixed(<<")", ",">>)>> >>
             ELSE << <<Fixed(<<" ", " ", "b", "o", "d", "y", ":", " ", "'">>), Embedded("body", EscapeQuotes(req.body)),
                       Fixed(<<"'", ",">>)>> >>
        ELSE <<>>
      call ==
        IF ~hasOptions
        THEN << <<Fixed(<<"c", "o", "n", "s", "t", " ", "r", "e", "s", "p", "o", "n", "s", "e", " ", "=", " ", "a", "w", "a", "i", "t", " ", "f", "e", "t", "c", "h", "(", "'">>), Embedded("url", req.url),
                  Fixed(<<"'", ")", ";">>)>> >>
        ELSE << <<Fixed(<<"c", "o", "n", "s", "t", " ", "r", "e", "s", "p", "o", "n", "s", "e", " ", "=", " ", "a", "w", "a", "i", "t", " ", "f", "e", "t", "c", "h", "(", "'">>), Embedded("url", req.url),
                  Fixed(<<"'", ",", " ", "{">>)>>,
                <<Fixed(<<" ", " ", "m", "e", "t", "h", "o", "d", ":", " ", "'">>), Embedded("method", req.method), Fixed(<<"'", ",">>)>> >>
             \o headerLines \o bodyLines \o << <<Fixed(<<"}", ")", ";">>)>> >>
  IN  JoinLines(credentials \o call
                \o << <<>>, <<Fixed(<<"c", "o", "n", "s", "t", " ", "d", "a", "t", "a", " ", "=", " ", "a", "w", "a", "i", "t", " ", "r", "e", "s", "p", "o", "n", "s", "e", ".", "j", "s", "o", "n", "(", ")", ";">>)>>,
                      <<Fixed(<<"c", "o", "n", "s", "o", "l", "e", ".", "l", "o", "g", "(", "d", "a", "t", "a", ")", ";">>)>> >>)

toAxios(req) ==
  LET import == << <<Fixed(<<"i", "m", "p", "o", "r", "t", " ", "a", "x", "i", "o", "s", " ", "f", "r", "o", "m", " ", "'", "a", "x", "i", "o", "s", "'", ";">>)>>, <<>> >>
      headerLines ==
        IF Len(req.headers) > 0
        THEN << <<Fixed(<<" ", " ", "h", "e", "a", "d", "e", "r", "s", ":", " ", "{">>)>> >>
             \o [n \in 1..Len(req.headers) |->
                   <<Fixed(<<" ", " ", " ", " ", "'">>), Embedded("header name", req.headers[n][1]),
                     Fixed(<<"'", ":", " ", "'">>),
                     Embedded("header value", EscapeQuotes(req.headers[n][2])),
                     Fixed(<<"'", ",">>)>>]
             \o << <<Fixed(<<" ", " ", "}", ",">>)>> >>
        ELSE <<>>
      authLines ==
        IF req.auth.present
        THEN << <<Fixed(<<" ", " ", "a", "u", "t", "h", ":", " ", "{">>)>>,
                <<Fixed(<<" ", " ", " ", " ", "u", "s", "e", "r", "n", "a", "m", "e", ":", " ", "'">>), Embedded("auth user", req.auth.user),
                  Fixed(<<"'", ",">>)>>,
                <<Fixed(<<" ", " ", " ", " ", "p", "a", "s", "s", "w", "o", "r", "d", ":", " ", "'">>), Embedded("auth pass", req.auth.pass),
                  Fixed(<<"'", ",">>)>>,
                <<Fixed(<<" ", " ", "}", ",">>)>> >>
        ELSE <<>>
      dataLines ==
        IF Truthy(req.body)
        THEN IF IsJson(req.body)
             THEN << <<Fixed(<<" ", " ", "d", "a", "t", "a", ":", " ">>), Embedded("json body", req.body), Fixed(<<",">>)>> >>
             ELSE << <<Fixed(<<" ", " ", "d", "a", "t", "a", ":", " ", "'">>), Embedded("body", EscapeQuotes(req.body)),
                       Fixed(<<"'", ",">>)>> >>
        ELSE <<>>
      config ==
        << <<Fixed(<<" ", " ", "m", "e", "t", "h", "o", "d", ":", " ", "'">>), Embedded("method", ToLowerCase(req.method)),
             Fixed(<<"'", ",">>)>>,
           <<Fixed(<<" ", " ", "u", "r", "l", ":", " ", "'">>), Embedded("url", req.url), Fixed(<<"'", ",">>)>> >>
        \o headerLines \o authLines \o dataLines
  IN  IF /\ req.method = <<"G", "E", "T">>
         /\ ~Truthy(req.body)
         /\ Len(req.headers) = 0
         /\ ~req.auth.present
      THEN JoinLines(import
                     \o << <<Fixed(<<"c", "o", "n", "s", "t", " ", "{", " ", "d", "a", "t", "a", " ", "}", " ", "=", " ", "a", "w", "a", "i", "t", " ", "a", "x", "i", "o", "s", ".", "g", "e", "t", "(", "'">>),
                             Embedded("url", req.url), Fixed(<<"'", ")", ";">>)>>,
                           <<Fixed(<<"c", "o", "n", "s", "o", "l", "e", ".", "l", "o", "g", "(", "d", "a", "t", "a", ")", ";">>)>> >>)
      ELSE JoinLines(import
                     \o << <<Fixed(<<"c", "o", "n", "s", "t", " ", "{", " ", "d", "a", "t", "a", " ", "}", " ", "=", " ", "a", "w", "a", "i", "t", " ", "a", "x", "i", "o", "s", "(", "{">>)>>,
                           JoinLines(config),
                           <<Fixed(<<"}", ")", ";">>)>>,
                           <<>>,
                           <<Fixed(<<"c", "o", "n", "s", "o", "l", "e", ".", "l", "o", "g", "(", "d", "a", "t", "a", ")", ";">>)>> >>)

(***************************************************************************)
(* SpecGenerate: toFetch and toAxios on records whose values hold single   *)
(* quotes.                                                                 *)
(***************************************************************************)
GenValues == {<<"/", "x">>, <<"/", "x", "'", "y">>}

InitGenerate ==
  /\ MainIdle
  /\ pc = "generate"
  /\ \E method \in {<<"G", "E", "T">>, <<"P", "O", "S", "T">>}, url \in GenValues, headers \in {h \in SeqsUpTo(GenValues \X GenValues, MaxHeaders) :
                      \A m, n \in 1..Len(h) : m # n => h[m][1] # h[n][1]},
        body \in {Undefined, <<>>, <<"{", "\"", "a", "\"", ":", "1", "}">>, <<"i", "t", "'", "s">>},
        auth \in {NoAuth} \cup [present : {TRUE}, user : GenValues, pass : GenValues] :
       input = [NewRequest EXCEPT !.method = method, !.url = url, !.headers = headers,
                                  !.body = body, !.auth = auth]
  /\ result = <<>>

DoToFetch ==
  /\ pc = "generate"
  /\ result' = toFetch(input)
  /\ pc' = "toFetch"
  /\ UNCHANGED <<input, mainVars>>

DoToAxios ==
  /\ pc = "generate"
  /\ result' = toAxios(input)
  /\ pc' = "toAxios"
  /\ UNCHANGED <<input, mainVars>>

NextGenerate == DoToFetch \/ DoToAxios

SpecGenerate == InitGenerate /\ [][NextGenerate]_vars

\* every single quote of s has a backslash right before it
QuotesEscaped(s) == \A k \in 1..Len(s) : s[k] = "'" => k > 1 /\ s[k - 1] = "\\"

\* C8: in the output of toFetch and toAxios, every value embedded inside
\* single-quoted text (url, header name, header value, auth user and pass,
\* body that is no JSON) has each of its single quotes prefixed with a
\* backslash.
EmbeddedQuotesEscaped ==
  pc \in {"toFetch", "toAxios"} =>
    \A n \in 1..Len(result) :
      result[n].from \in {"url", "header name", "header value", "auth user", "auth pass",
                          "body"}
        => QuotesEscaped(result[n].s)

\* what the generators do escape: header values and bodies that are no JSON
ValuesAndBodiesEscaped ==
  pc \in {"toFetch", "toAxios"} =>
    \A n \in 1..Len(result) :
      result[n].from \in {"header value", "body"} => QuotesEscaped(result[n].s)

(***************************************************************************)
(* main.  argv is process.argv.slice(2); the locals of main are variables  *)
(* (input is its local of that name, loopIndex the i of the running loop);  *)
(* printed lists the kind of each output written for a request; exitCode   *)
(* is "none" while the process runs.  The contents of the file and of      *)
(* standard input are chosen when they are read.                           *)
(***************************************************************************)
SupportedOutputs == {<<"f", "e", "t", "c", "h">>, <<"a", "x", "i", "o", "s">>, <<"c", "u", "r", "l">>}

\* the InputType as the text main compares with fromFormat
TypeText(type) ==
  IF type = "curl" THEN <<"c", "u", "r", "l">>
  ELSE IF type = "fetch" THEN <<"f", "e", "t", "c", "h">>
  ELSE IF type = "axios" THEN <<"a", "x", "i", "o", "s">>
  ELSE IF type = "postman" THEN <<"p", "o", "s", "t", "m", "a", "n">>
  ELSE <<"u", "n", "k", "n", "o", "w", "n">>

ArgPool ==
  {<<"-", "-", "h", "e", "l", "p">>, <<"-", "-", "v", "e", "r", "s", "i", "o", "n">>, <<"-", "-", "t", "o">>, <<"-", "-", "f", "r", "o", "m">>, <<"-", "-", "f", "i", "l", "e">>, <<"-", "-", "j", "s", "o", "n">>, <<"-", "-", "a", "l", "l">>,
   <<"c", "u", "r", "l">>, <<"x", "m", "l">>, <<"/", "x">>}

\* what a file or standard input may hold
SourceTexts ==
  {<<>>,
   <<" ", "\n">>,
   <<"c", "u", "r", "l", " ", "/", "x", "\n">>,
   <<"f", "e", "t", "c", "h", "(", "'", "/", "x", "'", ")">>,
   <<"a", "x", "i", "o", "s", "(", "'", "/", "x", "'", ")">>,
   <<"x">>,
   <<"{", "\"", "i", "n", "f", "o", "\"", ":", "1", ",", "\"", "i", "t", "e", "m", "\"", ":", "[", "]", "}">>,
   <<"{", "\"", "i", "n", "f", "o", "\"", ":", "1", ",", "\"", "i", "t", "e", "m", "\"", ":", "[", "{", "\"", "r", "e", "q", "u", "e", "s", "t", "\"", ":", "{", "\"", "u", "r", "l", "\"", ":", "\"", "/", "1", "\"", "}", "}", ",", "{", "\"", "r", "e", "q", "u", "e", "s", "t", "\"", ":", "{", "\"", "u", "r", "l", "\"", ":", "\"", "/", "2", "\"", "}", "}", "]", "}">>,
   <<"{", "\"", "i", "n", "f", "o", "\"", ":", "1", ",", "\"", "i", "t", "e", "m", "\"", ":", "1", "}">>}

InitMain ==
  /\ pc = "args"
  /\ argv \in SeqsUpTo(ArgPool, MaxArgs)
  /\ loopIndex = 0
  /\ toFormat = <<"f", "e", "t", "c", "h">>
  /\ fromFormat = <<>>
  /\ filePath = <<>>
  /\ jsonOutput = FALSE
  /\ showAll = FALSE
  /\ inputParts = <<>>
  /\ input = <<>>
  /\ detectedType = <<>>
  /\ requests = <<>>
  /\ printed = <<>>
  /\ exitCode = "none"
  /\ result = <<>>

\* args[++i] || dflt, where n is the value of i before the increment
ArgAfter(n, dflt) == IF n + 2 <= Len(argv) /\ argv[n + 2] # <<>> THEN argv[n + 2] ELSE dflt

Exit(label, code) == pc' = label /\ exitCode' = code

ArgHelp ==
  /\ pc = "args" /\ loopIndex < Len(argv) /\ argv[loopIndex + 1] \in {<<"-", "-", "h", "e", "l", "p">>, <<"-", "h">>}
  /\ Exit("help", "0")
  /\ UNCHANGED <<argv, loopIndex, toFormat, fromFormat, filePath, jsonOutput, showAll, inputParts,
                 input, detectedType, requests, printed, result>>

ArgVersion ==
  /\ pc = "args" /\ loopIndex < Len(argv) /\ argv[loopIndex + 1] \in {<<"-", "-", "v", "e", "r", "s", "i", "o", "n">>, <<"-", "v">>}
  /\ Exit("version", "0")
  /\ UNCHANGED <<argv, loopIndex, toFormat, fromFormat, filePath, jsonOutput, showAll, inputParts,
                 input, detectedType, requests, printed, result>>

ArgTo ==
  /\ pc = "args" /\ loopIndex < Len(argv) /\ argv[loopIndex + 1] = <<"-", "-", "t", "o">>
  /\ toFormat' = ArgAfter(loopIndex, <<"f", "e", "t", "c", "h">>)
  /\ loopIndex' = loopIndex + 2
  /\ UNCHANGED <<pc, argv, fromFormat, filePath, jsonOutput, showAll, inputParts, input,
                 detectedType, requests, printed, exitCode, result>>

ArgFrom ==
  /\ pc = "args" /\ loopIndex < Len(argv) /\ argv[loopIndex + 1] = <<"-", "-", "f", "r", "o", "m">>
  /\ fromFormat' = ArgAfter(loopIndex, <<>>)
  /\ loopIndex' = loopIndex + 2
  /\ UNCHANGED <<pc, argv, toFormat, filePath, jsonOutput, showAll, inputParts, input,
                 detectedType, requests, printed, exitCode, result>>

ArgFile ==
  /\ pc = "args" /\ loopIndex < Len(argv) /\ argv[loopIndex + 1] \in {<<"-", "-", "f", "i", "l", "e">>, <<"-", "f">>}
  /\ filePath' = ArgAfter(loopIndex, <<>>)
  /\ loopIndex' = loopIndex + 2
  /\ UNCHANGED <<pc, argv, toFormat, fromFormat, jsonOutput, showAll, inputParts, input,
                 detectedType, requests, printed, exitCode, result>>

ArgJson ==
  /\ pc = "args" /\ loopIndex < Len(argv) /\ argv[loopIndex + 1] = <<"-", "-", "j", "s", "o", "n">>
  /\ jsonOutput' = TRUE
  /\ loopIndex' = loopIndex + 1
  /\ UNCHANGED <<pc, argv, toFormat, fromFormat, filePath, showAll, inputParts, input,
                 detectedType, requests, printed, exitCode, result>>

ArgAll ==
  /\ pc = "args" /\ loopIndex < Len(argv) /\ argv[loopIndex + 1] = <<"-", "-", "a", "l", "l">>
  /\ showAll' = TRUE
  /\ loopIndex' = loopIndex + 1
  /\ UNCHANGED <<pc, argv, toFormat, fromFormat, filePath, jsonOutput, inputParts, input,
                 detectedType, requests, printed, exitCode, result>>

ArgInput ==
  /\ pc = "args" /\ loopIndex < Len(argv)
  /\ argv[loopIndex + 1] \notin {<<"-", "-", "h", "e", "l", "p">>, <<"-", "h">>, <<"-", "-", "v", "e", "r", "s", "i", "o", "n">>, <<"-", "v">>, <<"-", "-", "t", "o">>, <<"-", "-", "f", "r", "o", "m">>,
                         <<"-", "-", "f", "i", "l", "e">>, <<"-", "f">>, <<"-", "-", "j", "s", "o", "n">>, <<"-", "-", "a", "l", "l">>}
  /\ inputParts' = Append(inputParts, argv[loopIndex + 1])
  /\ loopIndex' = loopIndex + 1
  /\ UNCHANGED <<pc, argv, toFormat, fromFormat, filePath, jsonOutput, showAll, input,
                 detectedType, requests, printed, exitCode, result>>

\* let input = inputParts.join(' ')
ArgsDone ==
  /\ pc = "args" /\ loopIndex >= Len(argv)
  /\ input' = Join(inputParts, <<" ">>)
  /\ pc' = "file"
  /\ UNCHANGED <<argv, loopIndex, toFormat, fromFormat, filePath, jsonOutput, showAll, inputParts,
                 detectedType, requests, printed, exitCode, result>>

ReadFile ==
  /\ pc = "file" /\ filePath # <<>>
  /\ \E content \in SourceTexts : input' = Trim(content)
  /\ pc' = "stdin"
  /\ UNCHANGED <<argv, loopIndex, toFormat, fromFormat, filePath, jsonOutput, showAll, inputParts,
                 detectedType, requests, printed, exitCode, result>>

ReadFileFails ==
  /\ pc = "file" /\ filePath # <<>>
  /\ Exit("file error", "1")
  /\ UNCHANGED <<argv, loopIndex, toFormat, fromFormat, filePath, jsonOutput, showAll, inputParts,
                 input, detectedType, requests, printed, result>>

NoFile ==
  /\ pc = "file" /\ filePath = <<>>
  /\ pc' = "stdin"
  /\ UNCHANGED <<argv, loopIndex, toFormat, fromFormat, filePath, jsonOutput, showAll, inputParts,
                 input, detectedType, requests, printed, exitCode, result>>

\* input = await readStdin(): '' on a terminal, the trimmed data otherwise
ReadStdin ==
  /\ pc = "stdin" /\ input = <<>>
  /\ \E data \in SourceTexts : input' = Trim(data)
  /\ pc' = "check"
  /\ UNCHANGED <<argv, loopIndex, toFormat, fromFormat, filePath, jsonOutput, showAll, inputParts,
                 detectedType, requests, printed, exitCode, result>>

SkipStdin ==
  /\ pc = "stdin" /\ input # <<>>
  /\ pc' = "check"
  /\ UNCHANGED <<argv, loopIndex, toFormat, fromFormat, filePath, jsonOutput, showAll, inputParts,
                 input, detectedType, requests, printed, exitCode, result>>

NoInput ==
  /\ pc = "check" /\ input = <<>>
  /\ Exit("no input", "1")
  /\ UNCHANGED <<argv, loopIndex, toFormat, fromFormat, filePath, jsonOutput, showAll, inputParts,
                 input, detectedType, requests, printed, result>>

\* const detectedType = fromFormat || detectType(input), and the test for unknown
Detect ==
  /\ pc = "check" /\ input # <<>>
  /\ detectedType' = IF fromFormat # <<>> THEN fromFormat ELSE TypeText(detectType(input))
  /\ IF detectedType' = <<"u", "n", "k", "n", "o", "w", "n">>
     THEN Exit("unknown input format", "1")
     ELSE pc' = "parse" /\ UNCHANGED exitCode
  /\ UNCHANGED <<argv, loopIndex, toFormat, fromFormat, filePath, jsonOutput, showAll, inputParts,
                 input, requests, printed, result>>

ParseAsCurl ==
  /\ pc = "parse" /\ detectedType = <<"c", "u", "r", "l">>
  /\ requests' = <<parseCurl(input)>>
  /\ pc' = "generate" /\ loopIndex' = 0
  /\ UNCHANGED <<argv, toFormat, fromFormat, filePath, jsonOutput, showAll, inputParts,
                 input, detectedType, printed, exitCode, result>>

ParseAsFetch ==
  /\ pc = "parse" /\ detectedType = <<"f", "e", "t", "c", "h">>
  /\ requests' = <<[method |-> parseFetchCodeMethod(input)]>>
  /\ pc' = "generate" /\ loopIndex' = 0
  /\ UNCHANGED <<argv, toFormat, fromFormat, filePath, jsonOutput, showAll, inputParts,
                 input, detectedType, printed, exitCode, result>>

ParseAsAxios ==
  /\ pc = "parse" /\ detectedType = <<"a", "x", "i", "o", "s">>
  /\ requests' = <<[method |-> parseAxiosCodeMethod(input)]>>
  /\ pc' = "generate" /\ loopIndex' = 0
  /\ UNCHANGED <<argv, toFormat, fromFormat, filePath, jsonOutput, showAll, inputParts,
                 input, detectedType, printed, exitCode, result>>

\* requests = parsePostmanCollection(input), cut to the first without --all
ParseAsPostman ==
  /\ pc = "parse" /\ detectedType = <<"p", "o", "s", "t", "m", "a", "n">>
  /\ parsePostmanCollection(input).ok
  /\ requests' = IF ~showAll /\ Len(parsePostmanCollection(input).requests) > 1
                 THEN <<parsePostmanCollection(input).requests[1]>>
                 ELSE parsePostmanCollection(input).requests
  /\ pc' = "generate" /\ loopIndex' = 0
  /\ UNCHANGED <<argv, toFormat, fromFormat, filePath, jsonOutput, showAll, inputParts,
                 input, detectedType, printed, exitCode, result>>

\* parsePostmanCollection throws: main().catch
ParseThrows ==
  /\ pc = "parse" /\ detectedType = <<"p", "o", "s", "t", "m", "a", "n">>
  /\ ~parsePostmanCollection(input).ok
  /\ Exit("uncaught error", "1")
  /\ UNCHANGED <<argv, loopIndex, toFormat, fromFormat, filePath, jsonOutput, showAll, inputParts,
                 input, detectedType, requests, printed, result>>

\* the default case of the switch on detectedType
UnknownFormat ==
  /\ pc = "parse"
  /\ detectedType \notin {<<"c", "u", "r", "l">>, <<"f", "e", "t", "c", "h">>, <<"a", "x", "i", "o", "s">>, <<"p", "o", "s", "t", "m", "a", "n">>}
  /\ Exit("unknown format", "1")
  /\ UNCHANGED <<argv, loopIndex, toFormat, fromFormat, filePath, jsonOutput, showAll, inputParts,
                 input, detectedType, requests, printed, result>>

EmitJson ==
  /\ pc = "generate" /\ loopIndex < Len(requests) /\ jsonOutput
  /\ printed' = Append(printed, <<"j", "s", "o", "n">>)
  /\ loopIndex' = loopIndex + 1
  /\ UNCHANGED <<pc, argv, toFormat, fromFormat, filePath, jsonOutput, showAll, inputParts,
                 input, detectedType, requests, exitCode, result>>

EmitCode ==
  /\ pc = "generate" /\ loopIndex < Len(requests) /\ ~jsonOutput
  /\ toFormat \in SupportedOutputs
  /\ printed' = Append(printed, toFormat)
  /\ loopIndex' = loopIndex + 1
  /\ UNCHANGED <<pc, argv, toFormat, fromFormat, filePath, jsonOutput, showAll, inputParts,
                 input, detectedType, requests, exitCode, result>>

\* the default case of the switch on toFormat
UnknownOutputFormat ==
  /\ pc = "generate" /\ loopIndex < Len(requests) /\ ~jsonOutput
  /\ toFormat \notin SupportedOutputs
  /\ Exit("unknown output format", "1")
  /\ UNCHANGED <<argv, loopIndex, toFormat, fromFormat, filePath, jsonOutput, showAll, inputParts,
                 input, detectedType, requests, printed, result>>

\* main returns and the process ends
Finish ==
  /\ pc = "generate" /\ loopIndex >= Len(requests)
  /\ Exit("done", "0")
  /\ UNCHANGED <<argv, loopIndex, toFormat, fromFormat, filePath, jsonOutput, showAll, inputParts,
                 input, detectedType, requests, printed, result>>

NextMain ==
  \/ ArgHelp \/ ArgVersion \/ ArgTo \/ ArgFrom \/ ArgFile \/ ArgJson \/ ArgAll \/ ArgInput
  \/ ArgsDone \/ ReadFile \/ ReadFileFails \/ NoFile \/ ReadStdin \/ SkipStdin
  \/ NoInput \/ Detect \/ ParseAsCurl \/ ParseAsFetch \/ ParseAsAxios \/ ParseAsPostman
  \/ ParseThrows \/ UnknownFormat \/ EmitJson \/ EmitCode \/ UnknownOutputFormat \/ Finish

SpecMain == InitMain /\ [][NextMain]_vars

\* C9: a run that had input of a recognized format and a --to value that is
\* not fetch, axios or curl ends with exit code 1, whatever the other flags
\* and however many requests were parsed; so does a run with no input, and a
\* run whose format is unrecognized with no --from.
BadOutputFormatExitsOne ==
  exitCode # "none" =>
    /\ (/\ detectedType \in {<<"c", "u", "r", "l">>, <<"f", "e", "t", "c", "h">>, <<"a", "x", "i", "o", "s">>, <<"p", "o", "s", "t", "m", "a", "n">>}
        /\ toFormat \notin SupportedOutputs) => exitCode = "1"
    /\ (pc \notin {"help", "version", "file error"} /\ input = <<>>) => exitCode = "1"
    /\ (/\ pc \notin {"help", "version", "file error"}
        /\ input # <<>>
        /\ fromFormat = <<>>
        /\ detectType(input) = "unknown") => exitCode = "1"

\* the part of C9 that does not involve --json or an empty list of requests
BadOutputFormatExitsOneWhenUsed ==
  exitCode # "none" =>
    /\ (/\ detectedType \in {<<"c", "u", "r", "l">>, <<"f", "e", "t", "c", "h">>, <<"a", "x", "i", "o", "s">>, <<"p", "o", "s", "t", "m", "a", "n">>}
        /\ toFormat \notin SupportedOutputs
        /\ ~jsonOutput
        /\ pc \in {"done", "unknown output format"}
        /\ Len(requests) > 0) => exitCode = "1"
    /\ (pc \notin {"help", "version", "file error"} /\ input = <<>>) => exitCode = "1"
    /\ (/\ pc \notin {"help", "version", "file error"}
        /\ input # <<>>
        /\ fromFormat = <<>>
        /\ detectType(input) = "unknown") => exitCode = "1"

(***************************************************************************)
(* parseCurl on commands of header, data and url-encode flags, for the     *)
(* content type.                                                           *)
(***************************************************************************)
InitUrlencode ==
  /\ MainIdle
  /\ pc = "parseCurl"
  /\ \E words \in SeqsUpTo({<<"-", "-", "d", "a", "t", "a", "-", "u", "r", "l", "e", "n", "c", "o", "d", "e">>, <<"-", "H">>, <<"-", "d">>, <<"a", "=", "1">>, <<"c", "o", "n", "t", "e", "n", "t", "-", "t", "y", "p", "e", ":">>,
                           <<"C", "o", "n", "t", "e", "n", "t", "-", "T", "y", "p", "e", ":", "x">>, <<"X", ":", "y">>}, MaxTokens) :
       input = CurlCommand(words)
  /\ result = NewRequest

SpecUrlencode == InitUrlencode /\ [][DoParseCurl]_vars

FormType == <<"a", "p", "p", "l", "i", "c", "a", "t", "i", "o", "n", "/", "x", "-", "w", "w", "w", "-", "f", "o", "r", "m", "-", "u", "r", "l", "e", "n", "c", "o", "d", "e", "d">>

\* token j is the argument of a processed header flag, and the header it
\* writes is named content-type in some letter case
NamesContentType(toks, j) ==
  /\ j \in ArgsOf(toks, HeaderFlags)
  /\ IndexOf(toks[j], ":") > 1
  /\ ToLowerCase(Trim(SubSeq(toks[j], 1, IndexOf(toks[j], ":") - 1))) = <<"c", "o", "n", "t", "e", "n", "t", "-", "t", "y", "p", "e">>

\* what the url-encode flag whose argument is token j did: before and after
\* are the records on either side of it, typed says which earlier header
\* arguments count as having set a content type
UrlencodeStep(toks, j, typed) ==
  LET before == ParseTokens(SubSeq(toks, 1, j - 2))
      after == ParseTokens(SubSeq(toks, 1, j))
      earlierHeader == \E h \in typed : h < j
      earlierUrlencode == \E u \in ArgsOf(toks, UrlencodeFlags) : u < j
  IN  /\ after.body = IF before.body \in {Undefined, <<>>} THEN toks[j]
                      ELSE before.body \o <<"&">> \o toks[j]
      /\ earlierHeader =>
           after.contentType = before.contentType /\ after.headers = before.headers
      /\ (~earlierHeader /\ ~earlierUrlencode) =>
           /\ after.contentType = FormType
           /\ HeaderGet(after.headers, <<"C", "o", "n", "t", "e", "n", "t", "-", "T", "y", "p", "e">>) = FormType

\* C11: a --data-urlencode flag with an argument sets body to the argument
\* when body is empty and otherwise to the old body, an ampersand and the
\* argument; it sets contentType and the Content-Type header to
\* application/x-www-form-urlencoded when no content type has been set yet,
\* and once an earlier header flag named content-type (in any letter case)
\* has been processed it changes neither contentType nor the headers.
UrlencodeKeepsContentType ==
  pc = "parsed" =>
    LET toks == CurlTokens(input)
    IN  /\ result = ParseTokens(toks)
        /\ \A j \in ArgsOf(toks, UrlencodeFlags) :
             UrlencodeStep(toks, j, {h \in 1..Len(toks) : NamesContentType(toks, h)})

\* the same, counting only the content-type headers that have a value
UrlencodeKeepsNonEmptyContentType ==
  pc = "parsed" =>
    LET toks == CurlTokens(input)
    IN  /\ result = ParseTokens(toks)
        /\ \A j \in ArgsOf(toks, UrlencodeFlags) :
             UrlencodeStep(toks, j,
               {h \in 1..Len(toks) :
                  /\ NamesContentType(toks, h)
                  /\ Trim(SubSeq(toks[h], IndexOf(toks[h], ":") + 1, Len(toks[h]))) # <<>>})

(***************************************************************************)
(* tokenize on every short string, and parseCurl on commands that hold     *)
(* empty quoted words.                                                     *)
(***************************************************************************)
InitEmptyArgument ==
  \/ InitTokenize
  \/ /\ MainIdle
     /\ pc = "parseCurl"
     /\ \E words \in SeqsUpTo({<<"-", "d">>, <<"-", "X">>, <<"'", "'">>, <<"\"", "\"">>, <<"h", "t", "t", "p", ":", "/", "/", "x">>, <<"p", "u", "t">>}, MaxTokens) :
          input = CurlCommand(words)
     /\ result = NewRequest

SpecEmptyArgument == InitEmptyArgument /\ [][DoTokenize \/ DoParseCurl]_vars

\* the words of a command line after curl, those that are an empty pair of
\* quotes left out
WordsWithoutEmptyQuotes(command) ==
  SelectSeq(Tail(Split(command, " ")), LAMBDA w : w \notin {<<"'", "'">>, <<"\"", "\"">>})

\* C12: every token tokenize returns is non-empty, so a word that is an
\* empty pair of quotes gives no token, and parseCurl reads the command as
\* if that word were not there: a valued flag followed by it takes the next
\* token as its argument.  (A command is curl and at least one word.)
TokensAreNonEmpty ==
  /\ pc = "tokenized" => \A k \in 1..Len(result) : result[k] # <<>>
  /\ (pc = "parsed" /\ Len(Split(input, " ")) > 1) =>
       LET toks == WordsWithoutEmptyQuotes(input)
       IN  /\ CurlTokens(input) = toks
           /\ \A k \in 1..Len(toks) : toks[k] # <<>>
           /\ result = ParseTokens(toks)
           /\ \A j \in ArgsOf(toks, DataFlags) :
                j = MaxOf(ArgsOf(toks, DataFlags)) => result.body = toks[j]

\* the example of the claim: the URL after the empty argument becomes the body
EmptyArgumentWitness ==
  /\ pc = "parsed"
  /\ input = <<"c", "u", "r", "l", " ", "-", "d", " ", "'", "'", " ", "h", "t", "t", "p", ":", "/", "/", "x">>
  /\ result.body = <<"h", "t", "t", "p", ":", "/", "/", "x">>
  /\ result.url = <<>>
  /\ result.method = <<"P", "O", "S", "T">>

====
